---- MODULE Spec2Model ----
(***************************************************************************)
(* Stock-Screener: the point-in-time backtest engine (src/src/backtest.py), *)
(* the walk-forward validator (src/src/walk_forward.py), the scorer        *)
(* (src/src/scoring.py) and the indicator library (src/src/indicators.py). *)
(*                                                                         *)
(* Numbers.  A Python/numpy float is modelled by an exact fraction          *)
(* [n |-> numerator, d |-> denominator], reduced, d > 0; the IEEE specials  *)
(* are d = 0: NaN is 0/0, +inf is 1/0, -inf is -1/0.  Arithmetic is exact,  *)
(* so the model differs from the floats only by their representation error. *)
(* Dates are proleptic Gregorian ordinals (datetime.toordinal).             *)
(***************************************************************************)
EXTENDS Integers, Sequences, FiniteSets, TLC

----------------------------------------------------------------------------
(* Exact fractions with the IEEE specials *)

Abs(x) == IF x < 0 THEN -x ELSE x

Sign(x) == IF x < 0 THEN -1 ELSE IF x > 0 THEN 1 ELSE 0

RECURSIVE Gcd(_, _)
Gcd(a, b) == IF b = 0 THEN a ELSE Gcd(b, a % b)

NaN == [n |-> 0, d |-> 0]

Inf(s) == [n |-> s, d |-> 0]

Frac(n, d) ==
  IF d = 0 THEN [n |-> Sign(n), d |-> 0]
  ELSE LET g == Gcd(Abs(n), Abs(d))
       IN  [n |-> Sign(d) * (n \div g), d |-> Abs(d) \div g]

Num(i) == [n |-> i, d |-> 1]

IsNaN(x) == x.d = 0 /\ x.n = 0

IsInf(x) == x.d = 0 /\ x.n # 0

IsFinite(x) == x.d # 0

FNeg(x) == [n |-> -x.n, d |-> x.d]

FAdd(x, y) ==
  IF IsNaN(x) \/ IsNaN(y) THEN NaN
  ELSE IF IsInf(x) /\ IsInf(y) THEN (IF x.n = y.n THEN x ELSE NaN)
  ELSE IF IsInf(x) THEN x
  ELSE IF IsInf(y) THEN y
  ELSE Frac(x.n * y.d + y.n * x.d, x.d * y.d)

FSub(x, y) == FAdd(x, FNeg(y))

FMul(x, y) ==
  IF IsNaN(x) \/ IsNaN(y) THEN NaN
  ELSE IF IsInf(x) \/ IsInf(y) THEN Frac(Sign(x.n) * Sign(y.n), 0)
  ELSE Frac(x.n * y.n, x.d * y.d)

FDiv(x, y) ==
  IF IsNaN(x) \/ IsNaN(y) THEN NaN
  ELSE IF IsInf(y) THEN (IF IsInf(x) THEN NaN ELSE Num(0))
  ELSE IF IsInf(x) THEN Inf(IF y.n < 0 THEN -x.n ELSE x.n)
  ELSE IF y.n = 0 THEN Frac(Sign(x.n), 0)
  ELSE Frac(x.n * y.d, x.d * y.n)

\* x < y and x > y as the floats compare: false as soon as one side is NaN
FLt(x, y) ==
  /\ ~IsNaN(x) /\ ~IsNaN(y)
  /\ IF IsInf(x) /\ IsInf(y) THEN x.n < y.n
     ELSE IF IsInf(x) THEN x.n < 0
     ELSE IF IsInf(y) THEN y.n > 0
     ELSE x.n * y.d < y.n * x.d

FGt(x, y) == FLt(y, x)

FLe(x, y) == ~IsNaN(x) /\ ~IsNaN(y) /\ ~FLt(y, x)

FGe(x, y) == FLe(y, x)

\* Python max(a, b) / min(a, b): the first argument unless the second is
\* strictly greater / smaller
PyMax(a, b) == IF FGt(b, a) THEN b ELSE a

PyMin(a, b) == IF FLt(b, a) THEN b ELSE a

\* floor of a finite fraction
Floor(x) == IF x.n >= 0 THEN x.n \div x.d ELSE -((-x.n + x.d - 1) \div x.d)

\* round(x, 2): to the nearest hundredth, a tie to the even one; NaN and the
\* infinities come back unchanged
Round2(x) ==
  IF ~IsFinite(x) THEN x
  ELSE LET h    == FMul(x, Num(100))
           lo   == Floor(h)
           rem2 == 2 * (h.n - lo * h.d)
           q    == IF rem2 < h.d THEN lo
                   ELSE IF rem2 > h.d THEN lo + 1
                   ELSE IF lo % 2 = 0 THEN lo ELSE lo + 1
       IN  Frac(q, 100)

\* the number of positions of a series (or list)
Size(series) == Cardinality(DOMAIN series)

\* series[lo] + ... + series[hi], by halves
RECURSIVE SumRange(_, _, _)
SumRange(series, lo, hi) ==
  IF lo > hi THEN Num(0)
  ELSE IF lo = hi THEN series[lo]
  ELSE LET mid == (lo + hi) \div 2
       IN  FAdd(SumRange(series, lo, mid), SumRange(series, mid + 1, hi))

\* np.mean of a non-empty list
Mean(s) == FDiv(SumRange(s, 1, Size(s)), Num(Size(s)))

----------------------------------------------------------------------------
(* Calendar: datetime(y, m, d), timedelta(days) and relativedelta(months) *)

IsLeap(y) == (y % 4 = 0 /\ y % 100 # 0) \/ y % 400 = 0

DaysInMonth(y, m) ==
  IF m = 2 THEN (IF IsLeap(y) THEN 29 ELSE 28)
  ELSE IF m \in {4, 6, 9, 11} THEN 30 ELSE 31

RECURSIVE DaysBeforeMonth(_, _)
DaysBeforeMonth(y, m) ==
  IF m = 1 THEN 0 ELSE DaysBeforeMonth(y, m - 1) + DaysInMonth(y, m - 1)

DaysBeforeYear(y) ==
  LET p == y - 1 IN p * 365 + (p \div 4) - (p \div 100) + (p \div 400)

\* datetime(y, m, d).toordinal()
Ordinal(y, m, d) == DaysBeforeYear(y) + DaysBeforeMonth(y, m) + d

\* (year, month) of datetime(y, m, 1) + relativedelta(months=i), i >= 0
AddMonths(y, m, i) ==
  LET t == (m - 1) + i
  IN  <<y + (t \div 12), (t % 12) + 1>>

----------------------------------------------------------------------------
(* Indicator library: src/src/indicators.py.  A price series is a sequence  *)
(* of whole-number prices; an indicator series has the same positions and   *)
(* holds fractions, NaN where the indicator is undefined.                   *)

\* series[lo] + ... + series[hi] of a whole-number series, by halves
RECURSIVE IntSum(_, _, _)
IntSum(series, lo, hi) ==
  IF lo > hi THEN 0
  ELSE IF lo = hi THEN series[lo]
  ELSE LET mid == (lo + hi) \div 2
       IN  IntSum(series, lo, mid) + IntSum(series, mid + 1, hi)

\* series.rolling(window).mean() at position i: NaN until `window` points
\* are present
RollingMeanAt(series, window, i) ==
  IF i < window \/ window < 1 THEN NaN
  ELSE Frac(IntSum(series, i - window + 1, i), window)

\* series.rolling(window).mean()
RollingMean(series, window) ==
  [i \in DOMAIN series |-> RollingMeanAt(series, window, i)]

calculate_moving_average(price_series, window) == RollingMean(price_series, window)

\* price_series.diff() at a position that has a predecessor; at position 1
\* the delta is NaN
Delta(price_series, i) == price_series[i] - price_series[i - 1]

\* delta.where(delta > 0, 0): the NaN of position 1 fails the test, so the
\* gain there is 0
GainOf(price_series) ==
  [i \in DOMAIN price_series |->
     IF i > 1 /\ Delta(price_series, i) > 0 THEN Delta(price_series, i) ELSE 0]

\* the losses with the sign of the deltas: delta.where(delta < 0, 0)
LossOfSigned(price_series) ==
  [i \in DOMAIN price_series |->
     IF i > 1 /\ Delta(price_series, i) < 0 THEN Delta(price_series, i) ELSE 0]

\* -delta.where(delta < 0, 0)
LossOf(price_series) ==
  [i \in DOMAIN price_series |->
     IF i > 1 /\ Delta(price_series, i) < 0 THEN -Delta(price_series, i) ELSE 0]

\* calculate_rsi, lines 20-27, at position i of the gain and loss series
RsiAt(gain, loss, period, i) ==
  LET avg_gain == RollingMeanAt(gain, period, i)
      avg_loss == RollingMeanAt(loss, period, i)
      rs       == FDiv(avg_gain, avg_loss)
  IN  FSub(Num(100), FDiv(Num(100), FAdd(Num(1), rs)))

calculate_rsi(price_series, period) ==
  LET gain == GainOf(price_series)
      loss == LossOf(price_series)
  IN  [i \in DOMAIN price_series |-> RsiAt(gain, loss, period, i)]

----------------------------------------------------------------------------
(* Scorer: src/src/scoring.py.  A StockScorer is [ma_weight, rsi_weight]. *)

\* a validation that insists on the exact sum
WeightsRejectedExact(ma_weight, rsi_weight) ==
  FAdd(ma_weight, rsi_weight) # Num(1)

\* StockScorer.__init__'s validation: TRUE when it raises ValueError
WeightsRejected(ma_weight, rsi_weight) ==
  LET total == FAdd(ma_weight, rsi_weight)
      off   == FSub(total, Num(1))
      dist  == IF FLt(off, Num(0)) THEN FNeg(off) ELSE off
  IN  FGt(dist, Frac(1, 1000))

get_ma_signal(price, ma50) ==
  IF IsNaN(price) \/ IsNaN(ma50) \/ ma50 = Num(0) THEN Num(0)
  ELSE LET diff_pct == FMul(FDiv(FSub(price, ma50), ma50), Num(100))
       IN  IF FGt(diff_pct, Num(1)) THEN Num(1)
           ELSE IF FLt(diff_pct, Num(-1)) THEN Num(-1)
           ELSE Num(0)

\* a momentum signal as strong below 40 as above 60
get_rsi_signal_symmetric(rsi14) ==
  IF IsNaN(rsi14) THEN Num(0)
  ELSE LET clamped == PyMax(Num(0), PyMin(Num(100), rsi14))
       IN  IF FGt(clamped, Num(60)) THEN Num(1)
           ELSE IF FLt(clamped, Num(40)) THEN Num(-1)
           ELSE Num(0)

get_rsi_signal(rsi14) ==
  IF IsNaN(rsi14) THEN Num(0)
  ELSE LET clamped == PyMax(Num(0), PyMin(Num(100), rsi14))
       IN  IF FGt(clamped, Num(60)) THEN Num(1)
           ELSE IF FLt(clamped, Num(40)) THEN Frac(-1, 2)
           ELSE Num(0)

calculate_score(self, price, ma50, rsi14) ==
  LET ma_sig  == get_ma_signal(price, ma50)
      rsi_sig == get_rsi_signal(rsi14)
      score   == FAdd(FMul(self.ma_weight, ma_sig), FMul(self.rsi_weight, rsi_sig))
  IN  Round2(score)

----------------------------------------------------------------------------
(* Universe: src/src/stock_list.py *)

NIFTY_50_TICKERS ==
  << "RELIANCE.NS", "TCS.NS", "INFY.NS", "HDFCBANK.NS", "ICICIBANK.NS",
     "AXISBANK.NS", "KOTAKBANK.NS", "LT.NS", "WIPRO.NS", "HCLTECH.NS",
     "BAJAJFINSV.NS", "MARUTI.NS", "BHARTIARTL.NS", "SUNPHARMA.NS",
     "DRREDDY.NS" >>

TEST_TICKERS == SubSeq(NIFTY_50_TICKERS, 1, 15)

\* the engines screen the first NumTickers instruments of the universe
NumTickers == 2

stock_list == SubSeq(TEST_TICKERS, 1, NumTickers)

NSEI == "^NSEI"

Symbols == {stock_list[i] : i \in 1..Len(stock_list)} \cup {NSEI}

----------------------------------------------------------------------------
(* Market data: the yfinance service behind yf.download.  The history of    *)
(* one symbol is a profile: it has one price per day from `first` to `last` *)
(* (none when first > last), the price changing at the dates of `steps`,    *)
(* and the service raises for a request that starts on a day of `down`.     *)
(* A profile is a deterministic source: equal requests get equal answers.   *)

\* the price of `day`: that of the last of steps k.. dated up to `day`
RECURSIVE PriceFrom(_, _, _)
PriceFrom(steps, day, k) ==
  IF k = Len(steps) \/ steps[k + 1][1] > day THEN steps[k][2]
  ELSE PriceFrom(steps, day, k + 1)

PriceAt(steps, day) == PriceFrom(steps, day, 1)

Max2(a, b) == IF a >= b THEN a ELSE b

Min2(a, b) == IF a <= b THEN a ELSE b

\* the prices of the days lo..hi, from step k on: day by day, PriceAt
RECURSIVE ClosesFrom(_, _, _, _)
ClosesFrom(steps, k, lo, hi) ==
  LET seg_lo == IF k = 1 THEN lo ELSE Max2(lo, steps[k][1])
      seg_hi == IF k = Len(steps) THEN hi ELSE Min2(hi, steps[k + 1][1] - 1)
      seg    == IF seg_hi < seg_lo THEN <<>>
                ELSE [i \in 1..(seg_hi - seg_lo + 1) |-> steps[k][2]]
  IN  IF k = Len(steps) THEN seg ELSE seg \o ClosesFrom(steps, k + 1, lo, hi)

\* a frame without rows; a frame is its two columns, row i being
\* (Date[i], Close[i])
NoFrame == [Date |-> <<>>, Close |-> <<>>]

Rows(df) == Len(df.Close)

\* yf.download(ticker, start=start, end=end): the rows dated in [start, end),
\* or an exception
Download(profile, start, end) ==
  IF start \in profile.down THEN [raised |-> TRUE, df |-> NoFrame]
  ELSE LET lo == Max2(start, profile.first)
           hi == Min2(end - 1, profile.last)
       IN  [raised |-> FALSE,
            df |-> IF hi < lo THEN NoFrame
                   ELSE [Date  |-> [i \in 1..(hi - lo + 1) |-> lo + i - 1],
                         Close |-> ClosesFrom(profile.steps, 1, lo, hi)]]

\* df["Close"]
CloseOf(df) == df.Close

----------------------------------------------------------------------------
(* Screener pieces the engines use: src/src/screener.py *)

MA_WINDOW == 50

RSI_PERIOD == 14

\* series.iloc[-1]
LastOf(series) == series[Size(series)]

\* StockScreener.calculate_indicators, for one instrument's frame
calculate_indicators(df) ==
  LET close == CloseOf(df)
  IN  [Close |-> close,
       MA50  |-> calculate_moving_average(close, MA_WINDOW),
       RSI14 |-> calculate_rsi(close, RSI_PERIOD)]

\* .iloc[-1] of the three columns of calculate_indicators(df): the engines
\* read nothing else of them
LatestIndicators(df) ==
  LET close == CloseOf(df)
      n     == Len(close)
  IN  [Close |-> close[n],
       MA50  |-> RollingMeanAt(close, MA_WINDOW, n),
       RSI14 |-> RsiAt(GainOf(close), LossOf(close), RSI_PERIOD, n)]

\* The engines call screener.scorer.calculate_score.  The StockScreener of
\* src/src/screener.py sets no scorer attribute (the call then raises
\* AttributeError for every instrument); the StockScreener the engines are
\* written against carries a StockScorer with the default weights.
DefaultScorer == [ma_weight |-> Frac(4, 10), rsi_weight |-> Frac(6, 10)]

\* screener.scorer, which both engines call: screener.py defines no such
\* attribute; where a screener carries one it is taken to be StockScorer()
screener_scorer == DefaultScorer

----------------------------------------------------------------------------
(* Sequence helpers: list.sort(key=score, reverse=True) and list[:n] *)

RECURSIVE Concat(_)
Concat(seqs) == IF seqs = <<>> THEN <<>> ELSE Head(seqs) \o Concat(Tail(seqs))

\* x goes in front of the first entry whose score is strictly smaller, so
\* entries of equal score keep the order in which they were inserted
RECURSIVE InsertDesc(_, _)
InsertDesc(sorted, x) ==
  IF sorted = <<>> THEN <<x>>
  ELSE IF FLt(Head(sorted)[2], x[2]) THEN <<x>> \o sorted
  ELSE <<Head(sorted)>> \o InsertDesc(Tail(sorted), x)

RECURSIVE SortByScoreDesc(_)
SortByScoreDesc(scored) ==
  IF scored = <<>> THEN <<>>
  ELSE InsertDesc(SortByScoreDesc(SubSeq(scored, 1, Len(scored) - 1)), LastOf(scored))

\* seq[:n]: the first n entries, all but the last |n| when n is negative
SliceTo(seq, n) ==
  IF n >= 0 THEN SubSeq(seq, 1, Min2(n, Len(seq)))
  ELSE SubSeq(seq, 1, Max2(0, Len(seq) + n))

----------------------------------------------------------------------------
(* Backtest: src/src/backtest.py.  `self` is the record of the constructor's *)
(* arguments; `src` maps each symbol to its profile.                        *)

FUTURE_BUFFER_DAYS == 10

\* Backtest._get_screen_date: the 15th, None for a date datetime refuses
get_screen_date(year, month) ==
  IF month \in 1..12 /\ year \in 1..9999 THEN Ordinal(year, month, 15) ELSE 0

\* a month range that wraps the month without carrying into the year
get_month_range_same_year(self) ==
  [i \in 1..Max2(self.backtest_months, 0) |->
     <<self.start_year, ((self.start_month - 1 + (i - 1)) % 12) + 1>>]

\* Backtest._get_month_range
get_month_range(self) ==
  [i \in 1..Max2(self.backtest_months, 0) |->
     AddMonths(self.start_year, self.start_month, i - 1)]

\* a blind download whose window runs through the decision date
download_data_through(self, src, ticker, screen_date) ==
  LET start == screen_date - self.lookback_days
      r     == Download(src[ticker], start, screen_date + 1)
  IN  IF r.raised
      THEN [df |-> NoFrame, errs |-> << <<"Download failed", ticker>> >>]
      ELSE [df |-> r.df, errs |-> <<>>]

\* Backtest._download_data_blind: the frame, None (<<>>) when the download
\* raises or comes back empty; errs is what it appends to self.errors
download_data_blind(self, src, ticker, screen_date) ==
  LET start == screen_date - self.lookback_days
      r     == Download(src[ticker], start, screen_date)
  IN  IF r.raised
      THEN [df |-> NoFrame, errs |-> << <<"Download failed", ticker>> >>]
      ELSE [df |-> r.df, errs |-> <<>>]

\* Backtest._download_future
download_future(self, src, ticker, screen_date) ==
  LET end == screen_date + (self.holding_days + FUTURE_BUFFER_DAYS)
      r   == Download(src[ticker], screen_date, end)
  IN  IF r.raised
      THEN [df |-> NoFrame, errs |-> << <<"Future download failed", ticker>> >>]
      ELSE [df |-> IF Rows(r.df) >= 2 THEN r.df ELSE NoFrame, errs |-> <<>>]

\* Backtest._calc_return
calc_return(entry, exit) ==
  IF IsNaN(entry) \/ IsNaN(exit) \/ entry = Num(0) THEN Num(0)
  ELSE FMul(FDiv(FSub(exit, entry), entry), Num(100))

\* Backtest._get_benchmark_return
get_benchmark_return(self, src, screen_date) ==
  LET end == screen_date + (self.holding_days + FUTURE_BUFFER_DAYS)
      r   == Download(src[NSEI], screen_date, end)
  IN  IF r.raised
      THEN [ret |-> Num(0), errs |-> << <<"Benchmark download failed", NSEI>> >>]
      ELSE IF Rows(r.df) < 2 THEN [ret |-> Num(0), errs |-> <<>>]
      ELSE [ret  |-> calc_return(Num(r.df.Close[1]), Num(LastOf(r.df.Close))),
            errs |-> <<>>]

\* a scoring step that does not skip undefined indicators
ScoreOneUnchecked(has_scorer, ticker, df) ==
  LET ind   == LatestIndicators(df)
      close == Num(ind.Close)
      ma    == ind.MA50
      rsi   == ind.RSI14
  IN  IF ~has_scorer
      THEN [scored |-> <<>>, errs |-> << <<"Scoring failed", ticker>> >>]
      ELSE [scored |-> << <<ticker, calculate_score(screener_scorer, close, ma, rsi), close>> >>,
            errs   |-> <<>>]

\* Backtest._screen_stocks, lines 172-196: one instrument of the scoring loop
ScoreOne(has_scorer, ticker, df) ==
  LET ind   == LatestIndicators(df)
      close == Num(ind.Close)
      ma    == ind.MA50
      rsi   == ind.RSI14
  IN  IF IsNaN(ma) \/ IsNaN(rsi) THEN [scored |-> <<>>, errs |-> <<>>]
      ELSE IF ~has_scorer
      THEN [scored |-> <<>>, errs |-> << <<"Scoring failed", ticker>> >>]
      ELSE [scored |-> << <<ticker, calculate_score(screener_scorer, close, ma, rsi), close>> >>,
            errs   |-> <<>>]

\* Backtest._screen_stocks, lines 157-163: the download loop over the first
\* k instruments of the universe
RECURSIVE DownloadLoop(_, _, _, _, _)
DownloadLoop(self, src, universe, screen_date, k) ==
  IF k = 0 THEN <<>>
  ELSE Append(DownloadLoop(self, src, universe, screen_date, k - 1),
              download_data_blind(self, src, universe[k], screen_date))

\* lines 172-196: the scoring loop over them; an instrument without a frame
\* is not in screener.data
RECURSIVE ScoreLoop(_, _, _, _)
ScoreLoop(has_scorer, universe, got, k) ==
  IF k = 0 THEN <<>>
  ELSE Append(ScoreLoop(has_scorer, universe, got, k - 1),
              IF Rows(got[k].df) = 0 THEN [scored |-> <<>>, errs |-> <<>>]
              ELSE ScoreOne(has_scorer, universe[k], got[k].df))

\* Backtest._screen_stocks up to the sort: the ranked candidates and the
\* lines appended to self.errors, for the universe `universe`
RankStocks(self, src, has_scorer, universe, screen_date) ==
  LET n      == Len(universe)
      got    == DownloadLoop(self, src, universe, screen_date, n)
      one    == ScoreLoop(has_scorer, universe, got, n)
      scored == Concat([i \in 1..n |-> one[i].scored])
  IN  [ranked |-> SortByScoreDesc(scored),
       errs   |-> Concat([i \in 1..n |-> got[i].errs])
                  \o Concat([i \in 1..n |-> one[i].errs])]

\* Backtest._screen_stocks
screen_stocks(self, src, has_scorer, universe, screen_date) ==
  LET r == RankStocks(self, src, has_scorer, universe, screen_date)
  IN  [picks |-> SliceTo(r.ranked, self.top_n), errs |-> r.errs]

\* a measurement that keeps a pick whose forward window has a single point
MeasureOneAnyRows(self, src, pick, screen_date) ==
  LET end == screen_date + (self.holding_days + FUTURE_BUFFER_DAYS)
      r   == Download(src[pick[1]], screen_date, end)
  IN  IF r.raised \/ Rows(r.df) = 0
      THEN [returns |-> <<>>, details |-> <<>>, errs |-> <<>>]
      ELSE LET exit_price == Num(LastOf(r.df.Close))
               ret        == calc_return(pick[3], exit_price)
           IN  [returns |-> <<ret>>,
                details |-> << [ticker |-> pick[1], score |-> pick[2],
                                entry |-> Round2(pick[3]), exit |-> Round2(exit_price),
                                return |-> Round2(ret)] >>,
                errs    |-> <<>>]

\* Backtest._calculate_portfolio_returns, one pick
MeasureOne(self, src, pick, screen_date) ==
  LET f == download_future(self, src, pick[1], screen_date)
  IN  IF Rows(f.df) = 0 \/ Rows(f.df) < 2
      THEN [returns |-> <<>>, details |-> <<>>, errs |-> f.errs]
      ELSE LET exit_price == Num(LastOf(f.df.Close))
               ret        == calc_return(pick[3], exit_price)
           IN  [returns |-> <<ret>>,
                details |-> << [ticker |-> pick[1], score |-> pick[2],
                                entry |-> Round2(pick[3]), exit |-> Round2(exit_price),
                                return |-> Round2(ret)] >>,
                errs    |-> f.errs]

\* Backtest._calculate_portfolio_returns: the loop over the first k picks
RECURSIVE MeasureLoop(_, _, _, _, _)
MeasureLoop(self, src, the_picks, screen_date, k) ==
  IF k = 0 THEN <<>>
  ELSE Append(MeasureLoop(self, src, the_picks, screen_date, k - 1),
              MeasureOne(self, src, the_picks[k], screen_date))

\* Backtest._calculate_portfolio_returns
calculate_portfolio_returns(self, src, the_picks, screen_date) ==
  LET n == Len(the_picks)
      m == MeasureLoop(self, src, the_picks, screen_date, n)
  IN  [returns      |-> Concat([i \in 1..n |-> m[i].returns]),
       pick_details |-> Concat([i \in 1..n |-> m[i].details]),
       errs         |-> Concat([i \in 1..n |-> m[i].errs])]

----------------------------------------------------------------------------
(* WalkForwardValidator: src/src/walk_forward.py.  `self` holds the         *)
(* constructor's arguments and those of run().                              *)

BLIND_LOOKBACK_DAYS == 260

TEST_WINDOW_DAYS == 30

\* WalkForwardValidator._screen_blind, lines 31-42: the download loop; a
\* download that raises or comes back empty leaves no frame, and no trace
RECURSIVE WfDownloadLoop(_, _, _, _)
WfDownloadLoop(src, universe, screen_date, k) ==
  IF k = 0 THEN <<>>
  ELSE LET r == Download(src[universe[k]], screen_date - BLIND_LOOKBACK_DAYS, screen_date)
       IN  Append(WfDownloadLoop(src, universe, screen_date, k - 1),
                  [df |-> IF r.raised THEN NoFrame ELSE r.df])

\* lines 50-62: the scoring loop; NaN indicators and exceptions both skip
\* the instrument
RECURSIVE WfScoreLoop(_, _, _, _)
WfScoreLoop(has_scorer, universe, got, k) ==
  IF k = 0 THEN <<>>
  ELSE WfScoreLoop(has_scorer, universe, got, k - 1)
       \o (IF Rows(got[k].df) = 0 THEN <<>>
           ELSE ScoreOne(has_scorer, universe[k], got[k].df).scored)

\* WalkForwardValidator._screen_blind
screen_blind(self, src, has_scorer, universe, screen_date) ==
  LET n      == Len(universe)
      got    == WfDownloadLoop(src, universe, screen_date, n)
      scores == WfScoreLoop(has_scorer, universe, got, n)
  IN  SliceTo(SortByScoreDesc(scores), self.top_n)

\* WalkForwardValidator._measure_returns, lines 70-91: the loop over the
\* first k picks; the division is the floats' (a zero entry gives inf or NaN)
RECURSIVE WfReturnsLoop(_, _, _, _)
WfReturnsLoop(src, the_picks, screen_date, k) ==
  IF k = 0 THEN <<>>
  ELSE LET r == Download(src[the_picks[k][1]], screen_date,
                         screen_date + TEST_WINDOW_DAYS)
           entry == the_picks[k][3]
       IN  WfReturnsLoop(src, the_picks, screen_date, k - 1)
           \o (IF r.raised \/ Rows(r.df) < 2 THEN <<>>
               ELSE LET exit_price == Num(LastOf(r.df.Close))
                    IN  << FMul(FDiv(FSub(exit_price, entry), entry), Num(100)) >>)

\* WalkForwardValidator._measure_returns: the benchmark download is outside
\* every try, so its exception leaves the method (and run)
measure_returns(self, src, the_picks, screen_date) ==
  LET the_returns   == WfReturnsLoop(src, the_picks, screen_date, Len(the_picks))
      portfolio_ret == IF the_returns # <<>> THEN Mean(the_returns) ELSE Num(0)
      nifty         == Download(src[NSEI], screen_date, screen_date + TEST_WINDOW_DAYS)
      first_close   == Num(nifty.df.Close[1])
      last_close    == Num(LastOf(nifty.df.Close))
  IN  IF nifty.raised
      THEN [raised |-> TRUE, portfolio |-> portfolio_ret, nifty |-> Num(0)]
      ELSE [raised    |-> FALSE,
            portfolio |-> portfolio_ret,
            nifty     |-> IF Rows(nifty.df) >= 2
                          THEN FMul(FDiv(FSub(last_close, first_close), first_close),
                                    Num(100))
                          ELSE Num(0)]

\* run(): screen_date = datetime(start_year, 1, 15) + relativedelta(months=i)
WfScreenMonth(self, i) == AddMonths(self.start_year, 1, i)

WfScreenDate(self, i) ==
  LET ym == WfScreenMonth(self, i) IN Ordinal(ym[1], ym[2], 15)

----------------------------------------------------------------------------
(* StockScreener: src/src/screener.py.  `self` is the record of the object's *)
(* fields; `today` stands for datetime.now().                               *)

\* indicators.combine_signals
combine_signals(ma_signal, rsi_signal, ma_weight, rsi_weight) ==
  LET combined == FAdd(FMul(ma_weight, ma_signal), FMul(rsi_weight, rsi_signal))
  IN  PyMax(Num(-1), PyMin(Num(1), combined))

\* indicators.get_signal_score, which screener.py imports and calls:
\* indicators.py defines no such function; where the screener has one it is
\* taken to be combine_signals with its default weights
get_signal_score(ma_signal, rsi_signal) ==
  combine_signals(ma_signal, rsi_signal, Frac(4, 10), Frac(6, 10))

\* StockScreener.download_data, one instrument: the frame kept in self.data,
\* none when the download raises or comes back empty
ScreenerFrame(self, src, ticker) ==
  LET r == Download(src[ticker], self.today - self.lookback_days, self.today)
  IN  IF r.raised THEN NoFrame ELSE r.df

\* StockScreener.download_data: the keys of self.data after the loop over the
\* first k tickers
RECURSIVE download_data(_, _, _)
download_data(self, src, k) ==
  IF k = 0 THEN <<>>
  ELSE download_data(self, src, k - 1)
       \o (IF Rows(ScreenerFrame(self, src, self.tickers[k])) = 0 THEN <<>>
           ELSE << self.tickers[k] >>)

\* StockScreener.calculate_indicators: self.indicators, of which the later
\* steps read the last values only
IndicatorsOf(self, src) ==
  [i \in 1..Len(self.data) |->
     [ticker |-> self.data[i],
      latest |-> LatestIndicators(ScreenerFrame(self, src, self.data[i]))]]

\* StockScreener.generate_signals, lines 98-149: one instrument of the loop,
\* as the rows it appends to `results`.  A zero MA50 raises ZeroDivisionError
\* and a missing get_signal_score raises NameError: both are caught
SignalRow(has_scorer, ticker, latest) ==
  LET latest_close == Num(latest.Close)
      latest_ma50  == latest.MA50
      latest_rsi14 == latest.RSI14
      ma_diff_pct  == FMul(FDiv(FSub(latest_close, latest_ma50), latest_ma50), Num(100))
      ma_signal    == IF FGt(ma_diff_pct, Num(1)) THEN Num(1)
                      ELSE IF FLt(ma_diff_pct, Num(-1)) THEN Num(-1)
                      ELSE Num(0)
      rsi_signal   == IF FGt(latest_rsi14, Num(60)) THEN Num(1)
                      ELSE IF FLt(latest_rsi14, Num(40)) THEN Frac(-1, 2)
                      ELSE Num(0)
  IN  IF IsNaN(latest_ma50) \/ IsNaN(latest_rsi14) THEN <<>>
      ELSE IF latest_ma50 = Num(0) \/ ~has_scorer THEN <<>>
      ELSE << [Ticker         |-> ticker,
               Price          |-> Round2(latest_close),
               MA50           |-> Round2(latest_ma50),
               RSI14          |-> Round2(latest_rsi14),
               MA_Diff_pct    |-> Round2(ma_diff_pct),
               MA_Signal      |-> ma_signal,
               RSI_Signal     |-> rsi_signal,
               Combined_Score |-> Round2(get_signal_score(ma_signal, rsi_signal))] >>

\* lines 96-149: the `results` list after the first k instruments
RECURSIVE SignalRows(_, _, _)
SignalRows(has_scorer, indicators, k) ==
  IF k = 0 THEN <<>>
  ELSE SignalRows(has_scorer, indicators, k - 1)
       \o SignalRow(has_scorer, indicators[k].ticker, indicators[k].latest)

\* the orders of 1..n
Orders(n) == {p \in [1..n -> 1..n] : \A i, j \in 1..n : i # j => p[i] # p[j]}

\* DataFrame.sort_values("Combined_Score", ascending=False), lines 152-154:
\* the default kind is quicksort, which is not stable, so rows of equal score
\* may come out in any order
sort_values(rows) ==
  {[i \in 1..Len(rows) |-> rows[p[i]]] :
     p \in {q \in Orders(Len(rows)) :
              \A i, j \in 1..Len(rows) :
                i < j => FGe(rows[q[i]].Combined_Score, rows[q[j]].Combined_Score)}}

\* the Rank column, line 155: index + 1 after reset_index
WithRank(rows) ==
  [i \in 1..Len(rows) |->
     [Ticker |-> rows[i].Ticker, Price |-> rows[i].Price, MA50 |-> rows[i].MA50,
      RSI14 |-> rows[i].RSI14, MA_Diff_pct |-> rows[i].MA_Diff_pct,
      MA_Signal |-> rows[i].MA_Signal, RSI_Signal |-> rows[i].RSI_Signal,
      Combined_Score |-> rows[i].Combined_Score, Rank |-> i]]

----------------------------------------------------------------------------
(* Sample histories.  Every date is an ordinal of the 2023-2025 calendar.   *)

AllTime == [first |-> Ordinal(2023, 1, 1), last |-> Ordinal(2025, 12, 31)]

\* rising: 100, then 110 from 10 Feb 2024, 120 from 12 Mar, 121 from 12 Apr
Rising ==
  [first |-> AllTime.first, last |-> AllTime.last, down |-> {},
   steps |-> << <<AllTime.first, 100>>, <<Ordinal(2024, 2, 10), 110>>,
                <<Ordinal(2024, 3, 12), 120>>, <<Ordinal(2024, 4, 12), 121>> >>]

\* falling: 200, then 190 from 1 Feb 2024, 180 from 5 Mar, 175 from 5 Apr
Falling ==
  [first |-> AllTime.first, last |-> AllTime.last, down |-> {},
   steps |-> << <<AllTime.first, 200>>, <<Ordinal(2024, 2, 1), 190>>,
                <<Ordinal(2024, 3, 5), 180>>, <<Ordinal(2024, 4, 5), 175>> >>]

\* listed on 20 Jan 2024: too short for MA50 on 15 Feb, long enough later;
\* up and down inside the RSI window of 15 Mar
Listed ==
  [first |-> Ordinal(2024, 1, 20), last |-> AllTime.last, down |-> {},
   steps |-> << <<Ordinal(2024, 1, 20), 50>>, <<Ordinal(2024, 3, 8), 51>>,
                <<Ordinal(2024, 3, 11), 50>>, <<Ordinal(2024, 4, 2), 55>> >>]

\* rising, but the service fails for requests that start on 15 Feb 2024 and
\* the history ends on 15 Mar 2024
Halted ==
  [first |-> AllTime.first, last |-> Ordinal(2024, 3, 15),
   down  |-> {Ordinal(2024, 2, 15)},
   steps |-> << <<AllTime.first, 30>>, <<Ordinal(2024, 2, 12), 33>>,
                <<Ordinal(2024, 3, 13), 36>> >>]

\* no history at all, and the service fails for the lookback request of
\* 15 Feb 2024 (260 days back)
Absent ==
  [first |-> 1, last |-> 0, down |-> {Ordinal(2024, 2, 15) - 260},
   steps |-> << <<1, 1>> >>]

TickerProfiles == {Rising, Falling, Listed, Halted, Absent}

\* a price that drops to 0: 5, then 0 from 10 Feb 2024, 2 from 1 Mar
Worthless ==
  [first |-> AllTime.first, last |-> AllTime.last, down |-> {},
   steps |-> << <<AllTime.first, 5>>, <<Ordinal(2024, 2, 10), 0>>,
                <<Ordinal(2024, 3, 1), 2>> >>]

\* benchmark: 1000, 1010 from 1 Mar 2024, 1003 from 1 Apr, 1005 from 1 May
Index ==
  [first |-> AllTime.first, last |-> AllTime.last, down |-> {},
   steps |-> << <<AllTime.first, 1000>>, <<Ordinal(2024, 3, 1), 1010>>,
                <<Ordinal(2024, 4, 1), 1003>>, <<Ordinal(2024, 5, 1), 1005>> >>]

\* benchmark whose service fails on 15 Feb 2024 and whose history ends on
\* 15 Mar 2024
IndexHalted ==
  [first |-> AllTime.first, last |-> Ordinal(2024, 3, 15),
   down  |-> {Ordinal(2024, 2, 15)},
   steps |-> << <<AllTime.first, 1000>> >>]

BenchProfiles == {Index, IndexHalted}

\* the data sources: one profile per instrument and one for the benchmark;
\* the zero price is sampled for the first instrument only
Sources ==
  {f \in [Symbols -> TickerProfiles \cup BenchProfiles \cup {Worthless}] :
     /\ f[NSEI] \in BenchProfiles
     /\ f[stock_list[1]] \in TickerProfiles \cup {Worthless}
     /\ \A i \in 2..Len(stock_list) : f[stock_list[i]] \in TickerProfiles}

----------------------------------------------------------------------------
(* State *)

VARIABLES
  feed,          \* the market-data service: symbol -> profile
  has_scorer,    \* whether screener.py is the complete one (see screener_scorer)
  bt,            \* Backtest: the constructor's arguments / the object's fields
  bt_pc,         \* "call", "ready", "screen", "measure", "record", "done"
  month_range,   \* Backtest.run: the (year, month) list
  idx,           \* Backtest.run: periods of month_range already processed
  picks,         \* Backtest.run: the picks of the period being processed
  returns,       \* Backtest.run: their measured returns
  results,       \* Backtest.results
  monthly_picks, \* Backtest.monthly_picks
  errors,        \* Backtest.errors
  runs,          \* completed calls of Backtest.run on this object
  prior_results, \* Backtest.results as the previous call of run left it
  wf,            \* WalkForwardValidator: constructor and run() arguments
  wf_pc,         \* "call", "ready", "screen", "measure", "done", "raised"
  wf_i,          \* WalkForwardValidator.run: the loop variable i
  wf_picks,      \* WalkForwardValidator.run: the picks of the current date
  wf_results,    \* WalkForwardValidator.results
  sc_pc,         \* StockScorer: "call", "ready", "raised", "scored"
  scorer,        \* StockScorer: the weights given to the constructor
  score_args,    \* the last calculate_score call: <<price, ma50, rsi14>>
  score,         \* and what it returned
  scr,           \* StockScreener: the object's fields and run()'s position
  rsi_call,      \* indicators: one calculate_rsi call, arguments and result
  stats,         \* the summary statistics of one result sequence
  sig_call       \* one call of a signal or label function, arguments and result

bt_vars == <<bt, bt_pc, month_range, idx, picks, returns, results,
             monthly_picks, errors, runs, prior_results>>

wf_vars == <<wf, wf_pc, wf_i, wf_picks, wf_results>>

sc_vars == <<sc_pc, scorer, score_args, score>>

lib_vars == <<scr, rsi_call, stats, sig_call>>

vars == <<feed, has_scorer, bt_vars, wf_vars, sc_vars, lib_vars>>

----------------------------------------------------------------------------
(* Backtest: the sampled constructor calls *)

MaxMonths == 2

MaxTopN == 2

BaseArgs ==
  [backtest_months |-> MaxMonths, lookback_days |-> 260, top_n |-> MaxTopN,
   holding_days |-> 30, start_year |-> 2024, start_month |-> 2]

BacktestArgs ==
       {[BaseArgs EXCEPT !.backtest_months = m] : m \in -1..MaxMonths}
  \cup {[BaseArgs EXCEPT !.top_n = n] : n \in -1..MaxTopN}
  \cup {[BaseArgs EXCEPT !.lookback_days = d] : d \in {-5, 0, 60}}
  \cup {[BaseArgs EXCEPT !.holding_days = h] : h \in {-10, 0, 5}}
  \cup {[BaseArgs EXCEPT !.start_month = 12]}

BtFresh ==
  /\ month_range = <<>>
  /\ idx = 0
  /\ picks = <<>>
  /\ returns = <<>>
  /\ results = <<>>
  /\ monthly_picks = <<>>
  /\ errors = <<>>
  /\ runs = 0
  /\ prior_results = <<>>

BtInit == bt \in BacktestArgs /\ bt_pc = "call" /\ BtFresh

\* no Backtest object in this scenario
BtIdle == bt = BaseArgs /\ bt_pc = "idle" /\ BtFresh

\* Backtest.__init__: stores its arguments as they are and starts the three
\* lists empty; it validates nothing
Backtest__init__ ==
  /\ bt_pc = "call"
  /\ bt_pc' = "ready"
  /\ results' = <<>>
  /\ monthly_picks' = <<>>
  /\ errors' = <<>>
  /\ UNCHANGED <<lib_vars, wf_vars, sc_vars, feed, has_scorer, bt, month_range, idx, picks, returns, runs,
                 prior_results>>

\* Backtest.run, line 352
BtRunStart ==
  /\ bt_pc = "ready"
  /\ month_range' = get_month_range(bt)
  /\ idx' = 0
  /\ bt_pc' = "screen"
  /\ UNCHANGED <<lib_vars, wf_vars, sc_vars, feed, has_scorer, bt, picks, returns, results, monthly_picks,
                 errors, runs, prior_results>>

\* screen_date.strftime("%b %Y") of the period being processed
Label(ym) == ym

ZeroRow(label) ==
  [Month |-> label, Portfolio_Return_pct |-> Num(0), Nifty_Return_pct |-> Num(0),
   Outperformance_pct |-> Num(0), Num_Stocks |-> 0]

\* a screen step that skips a period without picks, leaving no row
BtScreenSkipping ==
  /\ bt_pc = "screen"
  /\ idx < Len(month_range)
  /\ LET ym          == month_range[idx + 1]
         screen_date == get_screen_date(ym[1], ym[2])
         r           == screen_stocks(bt, feed, has_scorer, stock_list, screen_date)
     IN  /\ errors' = errors \o r.errs
         /\ picks' = r.picks
         /\ IF r.picks = <<>>
            THEN idx' = idx + 1 /\ UNCHANGED <<bt_pc, results>>
            ELSE bt_pc' = "measure" /\ UNCHANGED <<results, idx>>
  /\ UNCHANGED <<lib_vars, wf_vars, sc_vars, feed, has_scorer, bt, month_range, returns,
                 monthly_picks, runs, prior_results>>

\* Backtest.run, lines 354-378: the next period's screen; with no picks the
\* zero row is appended and the loop goes on
BtScreen ==
  /\ bt_pc = "screen"
  /\ idx < Len(month_range)
  /\ LET ym          == month_range[idx + 1]
         screen_date == get_screen_date(ym[1], ym[2])
         r           == screen_stocks(bt, feed, has_scorer, stock_list, screen_date)
     IN  IF screen_date = 0
         THEN /\ idx' = idx + 1
              /\ UNCHANGED <<bt_pc, picks, results, errors>>
         ELSE /\ errors' = errors \o r.errs
              /\ picks' = r.picks
              /\ IF r.picks = <<>>
                 THEN /\ results' = Append(results, ZeroRow(Label(ym)))
                      /\ idx' = idx + 1
                      /\ UNCHANGED bt_pc
                 ELSE /\ bt_pc' = "measure"
                      /\ UNCHANGED <<results, idx>>
  /\ UNCHANGED <<lib_vars, wf_vars, sc_vars, feed, has_scorer, bt, month_range, returns, monthly_picks, runs,
                 prior_results>>

\* Backtest.run, lines 385-393
BtMeasure ==
  /\ bt_pc = "measure"
  /\ LET ym          == month_range[idx + 1]
         screen_date == get_screen_date(ym[1], ym[2])
         m           == calculate_portfolio_returns(bt, feed, picks, screen_date)
     IN  /\ returns' = m.returns
         /\ errors' = errors \o m.errs
         /\ monthly_picks' =
              Append(monthly_picks, [month |-> Label(ym), picks |-> m.pick_details])
  /\ bt_pc' = "record"
  /\ UNCHANGED <<lib_vars, wf_vars, sc_vars, feed, has_scorer, bt, month_range, idx, picks, results, runs,
                 prior_results>>

\* a row whose portfolio return is the mean even of no returns
PeriodRowMean(label, the_returns, benchmark_return) ==
  LET portfolio_return == Mean(the_returns)
      outperformance   == FSub(portfolio_return, benchmark_return)
  IN  [Month |-> label,
       Portfolio_Return_pct |-> Round2(portfolio_return),
       Nifty_Return_pct     |-> Round2(benchmark_return),
       Outperformance_pct   |-> Round2(outperformance),
       Num_Stocks           |-> Len(the_returns)]

\* a row whose outperformance is the difference of the two stored returns
PeriodRowStored(label, the_returns, benchmark_return) ==
  LET portfolio_return == IF the_returns # <<>> THEN Mean(the_returns) ELSE Num(0)
  IN  [Month |-> label,
       Portfolio_Return_pct |-> Round2(portfolio_return),
       Nifty_Return_pct     |-> Round2(benchmark_return),
       Outperformance_pct   |-> FSub(Round2(portfolio_return), Round2(benchmark_return)),
       Num_Stocks           |-> Len(the_returns)]

\* Backtest.run, lines 395-407: the row of a period that had picks
PeriodRow(label, the_returns, benchmark_return) ==
  LET portfolio_return == IF the_returns # <<>> THEN Mean(the_returns) ELSE Num(0)
      outperformance   == FSub(portfolio_return, benchmark_return)
  IN  [Month |-> label,
       Portfolio_Return_pct |-> Round2(portfolio_return),
       Nifty_Return_pct     |-> Round2(benchmark_return),
       Outperformance_pct   |-> Round2(outperformance),
       Num_Stocks           |-> Len(the_returns)]

\* a record step that puts the new row in front of the earlier ones
BtRecordPrepending ==
  /\ bt_pc = "record"
  /\ LET ym          == month_range[idx + 1]
         screen_date == get_screen_date(ym[1], ym[2])
         b           == get_benchmark_return(bt, feed, screen_date)
     IN  /\ errors' = errors \o b.errs
         /\ results' = <<PeriodRow(Label(ym), returns, b.ret)>> \o results
  /\ idx' = idx + 1
  /\ bt_pc' = "screen"
  /\ UNCHANGED <<lib_vars, wf_vars, sc_vars, feed, has_scorer, bt, month_range, picks, returns, monthly_picks,
                 runs, prior_results>>

\* Backtest.run, lines 395-407: the period's row is appended
BtRecord ==
  /\ bt_pc = "record"
  /\ LET ym          == month_range[idx + 1]
         screen_date == get_screen_date(ym[1], ym[2])
         b           == get_benchmark_return(bt, feed, screen_date)
     IN  /\ errors' = errors \o b.errs
         /\ results' = Append(results, PeriodRow(Label(ym), returns, b.ret))
  /\ idx' = idx + 1
  /\ bt_pc' = "screen"
  /\ UNCHANGED <<lib_vars, wf_vars, sc_vars, feed, has_scorer, bt, month_range, picks, returns, monthly_picks,
                 runs, prior_results>>

\* Backtest.run, lines 416-420: the loop is over; summary and export
BtFinish ==
  /\ bt_pc = "screen"
  /\ idx = Len(month_range)
  /\ bt_pc' = "done"
  /\ runs' = runs + 1
  /\ UNCHANGED <<lib_vars, wf_vars, sc_vars, feed, has_scorer, bt, month_range, idx, picks, returns, results,
                 monthly_picks, errors, prior_results>>

\* a second call of run() on the same object
MaxRuns == 2

BtRunAgain ==
  /\ bt_pc = "done"
  /\ runs < MaxRuns
  /\ prior_results' = results
  /\ month_range' = get_month_range(bt)
  /\ idx' = 0
  /\ bt_pc' = "screen"
  /\ UNCHANGED <<lib_vars, wf_vars, sc_vars, feed, has_scorer, bt, picks, returns, results, monthly_picks,
                 errors, runs>>

----------------------------------------------------------------------------
(* WalkForwardValidator: the sampled constructor and run() calls *)

WfBaseArgs ==
  [train_months |-> 1, test_months |-> 1, top_n |-> MaxTopN,
   start_year |-> 2024, months |-> 1 + MaxMonths]

WfArgs ==
       {[WfBaseArgs EXCEPT !.train_months = t] : t \in 0..2}
  \cup {[WfBaseArgs EXCEPT !.test_months = t] : t \in {0, 3}}
  \cup {[WfBaseArgs EXCEPT !.top_n = n] : n \in -1..MaxTopN}
  \cup {[WfBaseArgs EXCEPT !.months = m] : m \in 0..(1 + MaxMonths)}

WfFresh == wf_i = 0 /\ wf_picks = <<>> /\ wf_results = <<>>

WfInit == wf \in WfArgs /\ wf_pc = "call" /\ WfFresh

\* no WalkForwardValidator object in this scenario
WfIdle == wf = WfBaseArgs /\ wf_pc = "idle" /\ WfFresh

\* WalkForwardValidator.__init__: stores its arguments; validates nothing
WalkForwardValidator__init__ ==
  /\ wf_pc = "call"
  /\ wf_pc' = "ready"
  /\ wf_results' = <<>>
  /\ UNCHANGED <<lib_vars, feed, has_scorer, bt_vars, sc_vars, wf, wf_i, wf_picks>>

\* WalkForwardValidator.run, lines 118-120: range(self.train_months, months)
WfRunStart ==
  /\ wf_pc = "ready"
  /\ wf_i' = wf.train_months
  /\ wf_pc' = "screen"
  /\ UNCHANGED <<lib_vars, feed, has_scorer, bt_vars, sc_vars, wf, wf_picks, wf_results>>

\* lines 121-127: the screen of the next decision date; without picks the
\* loop continues and nothing is appended
WfScreen ==
  /\ wf_pc = "screen"
  /\ wf_i < wf.months
  /\ LET the_picks == screen_blind(wf, feed, has_scorer, stock_list,
                                   WfScreenDate(wf, wf_i))
     IN  /\ wf_picks' = the_picks
         /\ IF the_picks = <<>>
            THEN wf_i' = wf_i + 1 /\ UNCHANGED wf_pc
            ELSE wf_pc' = "measure" /\ UNCHANGED wf_i
  /\ UNCHANGED <<lib_vars, feed, has_scorer, bt_vars, sc_vars, wf, wf_results>>

\* lines 129-138: measurement and the appended row; an exception of the
\* benchmark download ends run()
WfMeasure ==
  /\ wf_pc = "measure"
  /\ LET m == measure_returns(wf, feed, wf_picks, WfScreenDate(wf, wf_i))
     IN  IF m.raised
         THEN wf_pc' = "raised" /\ UNCHANGED <<wf_i, wf_results>>
         ELSE /\ wf_results' = Append(wf_results,
                                      [month     |-> WfScreenMonth(wf, wf_i),
                                       portfolio |-> m.portfolio,
                                       nifty     |-> m.nifty,
                                       edge      |-> FSub(m.portfolio, m.nifty)])
              /\ wf_i' = wf_i + 1
              /\ wf_pc' = "screen"
  /\ UNCHANGED <<lib_vars, feed, has_scorer, bt_vars, sc_vars, wf, wf_picks>>

\* lines 140-147: the loop is over; the frame is written and returned
WfFinish ==
  /\ wf_pc = "screen"
  /\ wf_i >= wf.months
  /\ wf_pc' = "done"
  /\ UNCHANGED <<lib_vars, feed, has_scorer, bt_vars, sc_vars, wf, wf_i, wf_picks, wf_results>>

----------------------------------------------------------------------------
(* StockScorer: the sampled constructor and calculate_score calls *)

\* weights, in ten-thousandths
WeightSamples == {-10000, 0, 3995, 4000, 4005, 4020, 6000, 10000, 20000}

Weight(w) == Frac(w, 10000)

PriceSamples == {NaN, Num(0), Num(300), Num(400), Num(500)}

MaSamples == {NaN, Num(0), Num(310), Num(405), Num(480)}

RsiSamples == {NaN, Num(-5), Num(35), Num(50), Num(65), Num(100), Num(120)}

ScFresh == score_args = <<>> /\ score = Num(0)

ScInit ==
  /\ scorer \in {[ma_weight |-> Weight(a), rsi_weight |-> Weight(b)] :
                   a \in WeightSamples, b \in WeightSamples}
  /\ sc_pc = "call"
  /\ ScFresh

\* no StockScorer of its own in this scenario
ScIdle == scorer = DefaultScorer /\ sc_pc = "idle" /\ ScFresh

\* StockScorer.__init__: raises ValueError or keeps the weights
StockScorer__init__ ==
  /\ sc_pc = "call"
  /\ sc_pc' = IF WeightsRejected(scorer.ma_weight, scorer.rsi_weight)
              THEN "raised" ELSE "ready"
  /\ UNCHANGED <<lib_vars, feed, has_scorer, bt_vars, wf_vars, scorer, score_args, score>>

\* StockScorer.calculate_score on the constructed object (the method keeps
\* no state: one call per object is followed)
CalculateScore ==
  /\ sc_pc = "ready"
  /\ sc_pc' = "scored"
  /\ \E price \in PriceSamples, ma50 \in MaSamples, rsi14 \in RsiSamples :
       /\ score_args' = <<price, ma50, rsi14>>
       /\ score' = calculate_score(scorer, price, ma50, rsi14)
  /\ UNCHANGED <<lib_vars, feed, has_scorer, bt_vars, wf_vars, scorer>>

----------------------------------------------------------------------------
(* StockScreener: the sampled constructor calls and days of the run *)

ScreenerLookbacks == {0, 60, 260}

ScreenerDays == {Ordinal(2024, 2, 15), Ordinal(2024, 3, 15), Ordinal(2024, 4, 15)}

\* self.data = {}, self.indicators = {}, self.results = None
ScrFresh(lookback_days, today, pc) ==
  [pc |-> pc, tickers |-> stock_list, lookback_days |-> lookback_days,
   today |-> today, data |-> <<>>, indicators |-> <<>>,
   has_results |-> FALSE, results |-> <<>>]

ScrInit ==
  scr \in {ScrFresh(d, t, "call") : d \in ScreenerLookbacks, t \in ScreenerDays}

\* no StockScreener.run() in this scenario
ScrIdle == scr = ScrFresh(260, Ordinal(2024, 2, 15), "idle")

\* StockScreener.__init__
StockScreener__init__ ==
  /\ scr.pc = "call"
  /\ scr' = ScrFresh(scr.lookback_days, scr.today, "ready")
  /\ UNCHANGED <<feed, has_scorer, bt_vars, wf_vars, sc_vars, rsi_call, stats, sig_call>>

\* run(), line 181: self.download_data()
ScrDownloadData ==
  /\ scr.pc = "ready"
  /\ scr' = [scr EXCEPT !.pc = "downloaded",
                        !.data = download_data(scr, feed, Len(scr.tickers))]
  /\ UNCHANGED <<feed, has_scorer, bt_vars, wf_vars, sc_vars, rsi_call, stats, sig_call>>

\* line 182: self.calculate_indicators()
ScrCalculateIndicators ==
  /\ scr.pc = "downloaded"
  /\ scr' = [scr EXCEPT !.pc = "indicators", !.indicators = IndicatorsOf(scr, feed)]
  /\ UNCHANGED <<feed, has_scorer, bt_vars, wf_vars, sc_vars, rsi_call, stats, sig_call>>

\* line 183: self.generate_signals().  pd.DataFrame([]) has no columns, so
\* with no row sort_values("Combined_Score") raises KeyError, outside every
\* try: the exception leaves generate_signals and run()
ScrGenerateSignals ==
  /\ scr.pc = "indicators"
  /\ LET rows == SignalRows(has_scorer, scr.indicators, Len(scr.indicators))
     IN  IF rows = <<>>
         THEN scr' = [scr EXCEPT !.pc = "raised", !.has_results = TRUE, !.results = <<>>]
         ELSE \E sorted \in sort_values(rows) :
                scr' = [scr EXCEPT !.pc = "signals", !.has_results = TRUE,
                                   !.results = WithRank(sorted)]
  /\ UNCHANGED <<feed, has_scorer, bt_vars, wf_vars, sc_vars, rsi_call, stats, sig_call>>

\* lines 184-185: self.export_results() writes the file and prints
ScrExportResults ==
  /\ scr.pc = "signals"
  /\ scr' = [scr EXCEPT !.pc = "done"]
  /\ UNCHANGED <<feed, has_scorer, bt_vars, wf_vars, sc_vars, rsi_call, stats, sig_call>>

----------------------------------------------------------------------------
(* indicators.calculate_rsi: the sampled calls *)

\* the sampled price series: every series of up to MaxLen prices over a few
\* levels, with short periods, and longer series for the period of the
\* screener
MaxLen == 5

RsiPriceLevels == {-2, 0, 1, 3}

RsiPeriods == {1, 2, 3}

RECURSIVE SeriesUpTo(_)
SeriesUpTo(n) ==
  IF n = 0 THEN {<<>>}
  ELSE LET shorter == SeriesUpTo(n - 1)
       IN  shorter \cup {Append(s, x) : s \in {t \in shorter : Len(t) = n - 1},
                                        x \in RsiPriceLevels}

\* 16 prices: flat, rising, falling, and up and down by turns
LongSeries ==
  {[i \in 1..16 |-> 7], [i \in 1..16 |-> i], [i \in 1..16 |-> 20 - i],
   [i \in 1..16 |-> IF i % 2 = 0 THEN 9 ELSE 5]}

RsiInit ==
  rsi_call \in {[pc |-> "call", prices |-> s, period |-> p, rsi |-> <<>>] :
                  s \in SeriesUpTo(MaxLen), p \in RsiPeriods}
           \cup {[pc |-> "call", prices |-> s, period |-> RSI_PERIOD, rsi |-> <<>>] :
                  s \in LongSeries}

\* calculate_rsi(price_series, period)
CalculateRsi ==
  /\ rsi_call.pc = "call"
  /\ rsi_call' = [rsi_call EXCEPT !.pc = "done",
                                  !.rsi = calculate_rsi(rsi_call.prices, rsi_call.period)]
  /\ UNCHANGED <<feed, has_scorer, bt_vars, wf_vars, sc_vars, scr, stats, sig_call>>

\* no calculate_rsi call of its own in this scenario
RsiIdle == rsi_call = [pc |-> "idle", prices |-> <<>>, period |-> RSI_PERIOD, rsi |-> <<>>]

----------------------------------------------------------------------------
(* Summary statistics of a result sequence: Backtest._display_summary,      *)
(* PerformanceAnalyzer.print_statistics and the scripts drawdown_analysis   *)
(* and walkforward_metrics.  `rets` is the column of period returns, in     *)
(* percent.                                                                 *)

\* np.cumprod(1 + returns / 100) at position t
RECURSIVE Cumulative(_, _)
Cumulative(rets, t) ==
  IF t = 0 THEN Num(1)
  ELSE FMul(Cumulative(rets, t - 1), FAdd(Num(1), FDiv(rets[t], Num(100))))

\* np.maximum.accumulate(cumulative) at position t
RECURSIVE RunningMax(_, _)
RunningMax(rets, t) ==
  IF t = 1 THEN Cumulative(rets, 1)
  ELSE IF FGt(Cumulative(rets, t), RunningMax(rets, t - 1)) THEN Cumulative(rets, t)
  ELSE RunningMax(rets, t - 1)

\* (cumulative - running_max) / running_max * 100 at position t
DrawdownAt(rets, t) ==
  FMul(FDiv(FSub(Cumulative(rets, t), RunningMax(rets, t)), RunningMax(rets, t)), Num(100))

\* np.min of a non-empty array: NaN as soon as one element is NaN
RECURSIVE NpMin(_, _)
NpMin(xs, t) ==
  IF t = 1 THEN xs[1]
  ELSE LET rest == NpMin(xs, t - 1)
       IN  IF IsNaN(rest) \/ IsNaN(xs[t]) THEN NaN
           ELSE IF FLt(xs[t], rest) THEN xs[t] ELSE rest

\* a drawdown measured against the highest point of the whole curve
calculate_max_drawdown_from_top(rets) ==
  LET n   == Len(rets)
      top == RunningMax(rets, n)
  IN  NpMin([t \in 1..n |-> FMul(FDiv(FSub(Cumulative(rets, t), top), top), Num(100))], n)

\* Backtest._calculate_max_drawdown
calculate_max_drawdown(rets) ==
  NpMin([t \in 1..Len(rets) |-> DrawdownAt(rets, t)], Len(rets))

\* np.std(x) ** 2 with ddof = 0, Series.std() ** 2 with ddof = 1: the sum of
\* squared deviations over n - ddof (NaN for 0 / 0)
Variance(xs, ddof) ==
  LET n    == Len(xs)
      mean == Mean(xs)
      sq   == [i \in 1..n |-> FMul(FSub(xs[i], mean), FSub(xs[i], mean))]
  IN  FDiv(SumRange(sq, 1, n), Num(n - ddof))

\* a proxy is mean / std; the root is not taken here: the proxy is kept as
\* the mean and the variance it was divided by, or as the literal 0 of the
\* guard's else branch
Ratio(mean, var) == [zero |-> FALSE, mean |-> mean, var |-> var]

ZeroProxy == [zero |-> TRUE, mean |-> Num(0), var |-> Num(0)]

\* backtest.py:272-273 and performance_analyzer.py:313
Sharpe(rets) ==
  IF FGt(Variance(rets, 0), Num(0)) THEN Ratio(Mean(rets), Variance(rets, 0))
  ELSE ZeroProxy

\* performance_analyzer.py:317-318
Sortino(rets) ==
  LET downside == SelectSeq(rets, LAMBDA r : FLt(r, Num(0)))
  IN  IF Len(downside) > 0 THEN Ratio(Mean(rets), Variance(downside, 0)) ELSE ZeroProxy

\* walkforward_metrics.py:13: Series.std() is the sample deviation, NaN for a
\* single row, and NaN != 0 holds
SharpeSample(rets) ==
  IF Variance(rets, 1) # Num(0) THEN Ratio(Mean(rets), Variance(rets, 1)) ELSE ZeroProxy

\* the sampled result sequences: 1 to MaxRows period returns, and the
\* sequences of the specification's example
MaxRows == 3

ReturnLevels == {Num(-100), Num(-50), Num(0), Num(50), Num(100)}

ExampleReturns ==
  {<<Num(5), Num(-10), Num(2)>>, <<Num(-10), Num(5)>>, <<Num(-10)>>, <<Num(2), Num(5)>>}

RECURSIVE ReturnSeriesOf(_)
ReturnSeriesOf(n) ==
  IF n = 0 THEN {<<>>}
  ELSE {Append(s, x) : s \in ReturnSeriesOf(n - 1), x \in ReturnLevels}

StatsOf(pc, rets) ==
  [pc |-> pc, returns |-> rets, max_dd |-> Num(0), sharpe |-> ZeroProxy,
   sortino |-> ZeroProxy]

StatsInit ==
  stats \in {StatsOf("ready", s) :
               s \in ExampleReturns \cup UNION {ReturnSeriesOf(n) : n \in 1..MaxRows}}

\* no summary in this scenario
StatsIdle == stats = StatsOf("idle", <<>>)

\* Backtest._display_summary, lines 259-275, on a non-empty self.results
DisplaySummary ==
  /\ stats.pc = "ready"
  /\ stats' = [stats EXCEPT !.pc = "summary",
                            !.sharpe = Sharpe(stats.returns),
                            !.max_dd = calculate_max_drawdown(stats.returns)]
  /\ UNCHANGED <<feed, has_scorer, bt_vars, wf_vars, sc_vars, scr, rsi_call, sig_call>>

\* PerformanceAnalyzer.print_statistics, lines 297-319
PrintStatistics ==
  /\ stats.pc = "ready"
  /\ stats' = [stats EXCEPT !.pc = "statistics",
                            !.sharpe = Sharpe(stats.returns),
                            !.sortino = Sortino(stats.returns)]
  /\ UNCHANGED <<feed, has_scorer, bt_vars, wf_vars, sc_vars, scr, rsi_call, sig_call>>

\* walkforward_metrics.py, lines 7-19
WalkforwardMetrics ==
  /\ stats.pc = "ready"
  /\ stats' = [stats EXCEPT !.pc = "metrics", !.sharpe = SharpeSample(stats.returns)]
  /\ UNCHANGED <<feed, has_scorer, bt_vars, wf_vars, sc_vars, scr, rsi_call, sig_call>>

\* drawdown_analysis.py, lines 14-23: the same curve, in fractions, printed
\* in percent
DrawdownAnalysis ==
  /\ stats.pc = "ready"
  /\ stats' = [stats EXCEPT !.pc = "drawdown",
                            !.max_dd = calculate_max_drawdown(stats.returns)]
  /\ UNCHANGED <<feed, has_scorer, bt_vars, wf_vars, sc_vars, scr, rsi_call, sig_call>>

----------------------------------------------------------------------------
(* The trend signal outside StockScorer, and the labels of a score *)

\* indicators.get_ma_signal with threshold_pct = 1.0.  np_float: the
\* arguments are numpy floats, whose division by zero gives inf or NaN;
\* Python floats raise ZeroDivisionError
indicators_get_ma_signal(current_price, ma_value, np_float) ==
  IF IsNaN(ma_value) THEN [raised |-> FALSE, skipped |-> FALSE, value |-> Num(0)]
  ELSE IF ma_value = Num(0) /\ ~np_float
  THEN [raised |-> TRUE, skipped |-> FALSE, value |-> Num(0)]
  ELSE LET pct_diff == FMul(FDiv(FSub(current_price, ma_value), ma_value), Num(100))
       IN  [raised |-> FALSE, skipped |-> FALSE,
            value |-> IF FGt(pct_diff, Num(1)) THEN Num(1)
                      ELSE IF FLt(pct_diff, Num(-1)) THEN Num(-1)
                      ELSE Num(0)]

\* StockScreener.generate_signals, lines 106-122, on the latest close and
\* MA50 (.item(): Python floats) of an instrument whose RSI14 is defined: a
\* NaN MA50 is `continue`, a zero one raises inside the try
inline_ma_signal(latest_close, latest_ma50) ==
  IF IsNaN(latest_ma50) THEN [raised |-> FALSE, skipped |-> TRUE, value |-> Num(0)]
  ELSE IF latest_ma50 = Num(0) THEN [raised |-> TRUE, skipped |-> FALSE, value |-> Num(0)]
  ELSE LET ma_diff_pct == FMul(FDiv(FSub(latest_close, latest_ma50), latest_ma50), Num(100))
       IN  [raised |-> FALSE, skipped |-> FALSE,
            value |-> IF FGt(ma_diff_pct, Num(1)) THEN Num(1)
                      ELSE IF FLt(ma_diff_pct, Num(-1)) THEN Num(-1)
                      ELSE Num(0)]

\* StockScorer.get_interpretation, with the upper bands widened by one step
get_interpretation_wide(the_score) ==
  IF FGe(the_score, Frac(69, 100)) THEN "STRONG BUY"
  ELSE IF FGe(the_score, Frac(3, 10)) THEN "BUY"
  ELSE IF FGe(the_score, Frac(-3, 10)) THEN "HOLD"
  ELSE "SELL"

\* StockScorer.get_interpretation
get_interpretation(the_score) ==
  IF FGe(the_score, Frac(7, 10)) THEN "STRONG BUY"
  ELSE IF FGe(the_score, Frac(3, 10)) THEN "BUY"
  ELSE IF FGt(the_score, Frac(-3, 10)) THEN "HOLD"
  ELSE "SELL"

\* test_indicators.py, lines 59-66: the label printed for combined_score
printed_label(combined_score) ==
  IF FGe(combined_score, Frac(7, 10)) THEN "STRONG BUY"
  ELSE IF FGe(combined_score, Frac(3, 10)) THEN "MODERATE BUY"
  ELSE IF FLe(combined_score, Frac(-3, 10)) THEN "AVOID / SELL"
  ELSE "NEUTRAL"

SignalPrices ==
  {NaN, Num(0), Num(98), Num(99), Num(100), Num(101), Num(102),
   Num(197), Num(198), Num(202), Num(203)}

SignalTrends == {NaN, Num(0), Num(100), Num(200)}

\* scores in hundredths, -1.00 to 1.00
ScoreSamples == {Frac(k, 100) : k \in -100..100}

SigCall(pc, fn, price, ma, the_score) ==
  [pc |-> pc, fn |-> fn, price |-> price, ma |-> ma, score |-> the_score,
   np_float |-> FALSE, raised |-> FALSE, skipped |-> FALSE, signal |-> Num(0),
   label |-> ""]

SigInit ==
  sig_call \in
    {SigCall("call", "signal", price, ma, Num(0)) : price \in SignalPrices, ma \in SignalTrends}
    \cup {SigCall("call", "label", Num(0), Num(0), x) : x \in ScoreSamples}

\* no call in this scenario
SigIdle == sig_call = SigCall("idle", "", Num(0), Num(0), Num(0))

SigReturn(fn, np_float, out) ==
  sig_call' = [sig_call EXCEPT !.pc = "done", !.fn = fn, !.np_float = np_float,
                               !.raised = out.raised, !.skipped = out.skipped,
                               !.signal = out.value]

\* StockScorer.get_ma_signal(price, ma50)
ScorerGetMaSignal ==
  /\ sig_call.pc = "call" /\ sig_call.fn = "signal"
  /\ SigReturn("StockScorer.get_ma_signal", FALSE,
               [raised |-> FALSE, skipped |-> FALSE,
                value |-> get_ma_signal(sig_call.price, sig_call.ma)])
  /\ UNCHANGED <<feed, has_scorer, bt_vars, wf_vars, sc_vars, scr, rsi_call, stats>>

\* indicators.get_ma_signal(current_price, ma_value), on Python or numpy floats
IndicatorsGetMaSignal ==
  /\ sig_call.pc = "call" /\ sig_call.fn = "signal"
  /\ \E np_float \in BOOLEAN :
       SigReturn("indicators.get_ma_signal", np_float,
                 indicators_get_ma_signal(sig_call.price, sig_call.ma, np_float))
  /\ UNCHANGED <<feed, has_scorer, bt_vars, wf_vars, sc_vars, scr, rsi_call, stats>>

\* the inline rule of StockScreener.generate_signals for one instrument
InlineMaSignal ==
  /\ sig_call.pc = "call" /\ sig_call.fn = "signal"
  /\ SigReturn("generate_signals", FALSE, inline_ma_signal(sig_call.price, sig_call.ma))
  /\ UNCHANGED <<feed, has_scorer, bt_vars, wf_vars, sc_vars, scr, rsi_call, stats>>

\* StockScorer.get_interpretation(score)
GetInterpretation ==
  /\ sig_call.pc = "call" /\ sig_call.fn = "label"
  /\ sig_call' = [sig_call EXCEPT !.pc = "done", !.fn = "get_interpretation",
                                  !.label = get_interpretation(sig_call.score)]
  /\ UNCHANGED <<feed, has_scorer, bt_vars, wf_vars, sc_vars, scr, rsi_call, stats>>

\* test_indicators.py: the label of the combined score
PrintLabel ==
  /\ sig_call.pc = "call" /\ sig_call.fn = "label"
  /\ sig_call' = [sig_call EXCEPT !.pc = "done", !.fn = "test_indicators",
                                  !.label = printed_label(sig_call.score)]
  /\ UNCHANGED <<feed, has_scorer, bt_vars, wf_vars, sc_vars, scr, rsi_call, stats>>

----------------------------------------------------------------------------
(* Specifications *)

\* the scorer-less screener is sampled with the base arguments only
Init ==
  /\ feed \in Sources
  /\ has_scorer \in BOOLEAN
  /\ BtInit
  /\ has_scorer \/ bt = BaseArgs
  /\ WfIdle
  /\ ScIdle
  /\ ScrIdle
  /\ RsiIdle
  /\ StatsIdle
  /\ SigIdle

Next ==
  \/ Backtest__init__
  \/ BtRunStart
  \/ BtScreen
  \/ BtMeasure
  \/ BtRecord
  \/ BtFinish

\* one Backtest object, constructed and run once
Spec == Init /\ [][Next]_vars

NextRerun == Next \/ BtRunAgain

\* the same, with run() called again on the object
SpecRerun == Init /\ [][NextRerun]_vars

InitEngines ==
  /\ feed \in Sources
  /\ has_scorer \in BOOLEAN
  /\ \/ BtInit /\ WfIdle /\ (has_scorer \/ bt = BaseArgs)
     \/ BtIdle /\ WfInit /\ (has_scorer \/ wf = WfBaseArgs)
  /\ ScIdle
  /\ ScrIdle
  /\ RsiIdle
  /\ StatsIdle
  /\ SigIdle

NextEngines ==
  \/ Next
  \/ WalkForwardValidator__init__
  \/ WfRunStart
  \/ WfScreen
  \/ WfMeasure
  \/ WfFinish

\* one engine of either kind, constructed and run once
SpecEngines == InitEngines /\ [][NextEngines]_vars

InitScorer ==
  /\ feed = [s \in Symbols |-> IF s = NSEI THEN Index ELSE Rising]
  /\ has_scorer = TRUE
  /\ BtIdle
  /\ WfIdle
  /\ ScInit
  /\ ScrIdle
  /\ RsiIdle
  /\ StatsIdle
  /\ SigIdle

NextScorer ==
  \/ StockScorer__init__
  \/ CalculateScore

\* one StockScorer, constructed and asked for scores
SpecScorer == InitScorer /\ [][NextScorer]_vars

\* the period counts sampled for the calendar of decision dates
MaxPeriods == 13

InitMonths ==
  /\ feed = [s \in Symbols |-> IF s = NSEI THEN Index ELSE Rising]
  /\ has_scorer = TRUE
  /\ bt \in {[BaseArgs EXCEPT !.start_month = m, !.backtest_months = n] :
               m \in 1..12, n \in 0..MaxPeriods}
  /\ bt_pc = "call"
  /\ BtFresh
  /\ WfIdle
  /\ ScIdle
  /\ ScrIdle
  /\ RsiIdle
  /\ StatsIdle
  /\ SigIdle

\* one Backtest run from every start month, over 0 to MaxPeriods periods
SpecMonths == InitMonths /\ [][Next]_vars

InitRsi ==
  /\ feed = [s \in Symbols |-> IF s = NSEI THEN Index ELSE Rising]
  /\ has_scorer = TRUE
  /\ BtIdle
  /\ WfIdle
  /\ ScIdle
  /\ ScrIdle
  /\ RsiInit
  /\ StatsIdle
  /\ SigIdle

\* one calculate_rsi call on a sampled series
SpecRsi == InitRsi /\ [][CalculateRsi]_vars

InitStats ==
  /\ feed = [s \in Symbols |-> IF s = NSEI THEN Index ELSE Rising]
  /\ has_scorer = TRUE
  /\ BtIdle
  /\ WfIdle
  /\ ScIdle
  /\ ScrIdle
  /\ RsiIdle
  /\ StatsInit
  /\ SigIdle

NextStats ==
  \/ DisplaySummary
  \/ PrintStatistics
  \/ WalkforwardMetrics
  \/ DrawdownAnalysis

\* the statistics of one result sequence, by each program that computes them
SpecStats == InitStats /\ [][NextStats]_vars

InitSignals ==
  /\ feed = [s \in Symbols |-> IF s = NSEI THEN Index ELSE Rising]
  /\ has_scorer = TRUE
  /\ BtIdle
  /\ WfIdle
  /\ ScIdle
  /\ ScrIdle
  /\ RsiIdle
  /\ StatsIdle
  /\ SigInit

NextSignals ==
  \/ ScorerGetMaSignal
  \/ IndicatorsGetMaSignal
  \/ InlineMaSignal
  \/ GetInterpretation
  \/ PrintLabel

\* one call of a trend-signal function or of a label function
SpecSignals == InitSignals /\ [][NextSignals]_vars

InitScreener ==
  /\ feed \in Sources
  /\ has_scorer \in BOOLEAN
  /\ BtIdle
  /\ WfIdle
  /\ ScIdle
  /\ ScrInit
  /\ RsiIdle
  /\ StatsIdle
  /\ SigIdle

NextScreener ==
  \/ StockScreener__init__
  \/ ScrDownloadData
  \/ ScrCalculateIndicators
  \/ ScrGenerateSignals
  \/ ScrExportResults

\* one StockScreener, constructed and run once on a given day
SpecScreener == InitScreener /\ [][NextScreener]_vars

----------------------------------------------------------------------------
(* Properties *)

\* the position right after the screen of a period, and that period's date
BtScreened ==
  bt_pc = "measure" \/ (bt_pc = "screen" /\ idx >= 1 /\ picks = <<>>)

BtScreenedDate ==
  LET ym == month_range[IF bt_pc = "measure" THEN idx + 1 ELSE idx]
  IN  get_screen_date(ym[1], ym[2])

WfScreened ==
  wf_pc = "measure" \/ (wf_pc = "screen" /\ wf_i > wf.train_months /\ wf_picks = <<>>)

WfScreenedDate ==
  WfScreenDate(wf, IF wf_pc = "measure" THEN wf_i ELSE wf_i - 1)

\* a profile with price px from `day` on, and one whose history ends before
\* `day`
StepsBefore(steps, day) == SelectSeq(steps, LAMBDA st : st[1] < day)

Tamper(profile, day, px) ==
  [profile EXCEPT !.steps = StepsBefore(profile.steps, day) \o << <<day, px>> >>]

Truncate(profile, day) ==
  [profile EXCEPT !.last = Min2(profile.last, day - 1)]

\* what a profile says about the days before `day`
HistoryBefore(profile, day) ==
  [first |-> profile.first, last |-> Min2(profile.last, day - 1),
   down  |-> profile.down, steps |-> StepsBefore(profile.steps, day)]

AgreesBefore(a, b, day) ==
  \A s \in Symbols : HistoryBefore(a[s], day) = HistoryBefore(b[s], day)



\* data sources that agree with the feed on every price dated before `day`
\* and differ from it from `day` on; the candidate rewritten from day - 1 on
\* is tried too and passes only where the feed has no price of that day
Alternatives(day) ==
  {alt \in {[s \in Symbols |-> Tamper(feed[s], k, 1000)] : k \in {day - 1, day}}
           \cup {[s \in Symbols |-> Truncate(feed[s], day)]} :
     AgreesBefore(feed, alt, day)}

RowsWithin(df, lo, hi) ==
  \A i \in 1..Rows(df) : lo <= df.Date[i] /\ df.Date[i] < hi

\* C1: once a decision date D is screened, by either engine, every row the
\* screen was given is dated in [D - lookback, D), and any data source that
\* agrees with the feed on all prices before D gives the same ranked picks
\* (tickers, scores, entry prices).
C1_Causality ==
  /\ BtScreened =>
       LET D == BtScreenedDate
       IN  /\ \A k \in 1..Len(stock_list) :
                RowsWithin(download_data_blind(bt, feed, stock_list[k], D).df,
                           D - bt.lookback_days, D)
           /\ \A alt \in Alternatives(D) :
                screen_stocks(bt, alt, has_scorer, stock_list, D).picks = picks
  /\ WfScreened =>
       LET D == WfScreenedDate
       IN  /\ \A k \in 1..Len(stock_list) :
                RowsWithin(WfDownloadLoop(feed, stock_list, D, k)[k].df,
                           D - BLIND_LOOKBACK_DAYS, D)
           /\ \A alt \in Alternatives(D) :
                screen_blind(wf, alt, has_scorer, stock_list, D) = wf_picks

\* picks fixed for D while another source, equal before D, prices the first
\* pick differently on D itself
C1_Witness ==
  /\ bt_pc = "measure"
  /\ picks # <<>>
  /\ \E alt \in Alternatives(BtScreenedDate) :
       PriceAt(alt[picks[1][1]].steps, BtScreenedDate)
         # PriceAt(feed[picks[1][1]].steps, BtScreenedDate)

\* C2: a finished Backtest.run of M periods leaves exactly M rows, the k-th
\* labelled with the k-th month from the start month, whatever the downloads
\* and the scoring did; while it runs, no processed period lacks its row.
C2_OneRowPerMonth ==
  /\ bt_pc = "screen" => Len(results) = idx
  /\ (bt_pc = "done" /\ bt.backtest_months >= 0) =>
       /\ Len(results) = bt.backtest_months
       /\ \A k \in 1..Len(results) :
            results[k].Month = AddMonths(bt.start_year, bt.start_month, k - 1)

\* a finished run with logged failures, a first period without instruments
\* and a last one with measured picks
C2_Witness ==
  /\ bt_pc = "done"
  /\ Len(results) = MaxMonths
  /\ errors # <<>>
  /\ results[1].Num_Stocks = 0
  /\ results[Len(results)].Num_Stocks > 0

\* C3 (as claimed): WalkForwardValidator.run has one row for every decision
\* date it has gone through, with or without picks.
C3_RowPerDate ==
  wf_pc \in {"screen", "done"} => Len(wf_results) = wf_i - wf.train_months

\* C4: a Backtest period with no measured instrument (no candidates, or all
\* picks dropped at measurement) has a row with portfolio return 0 and
\* Num_Stocks 0, and the run has moved on to the next period.
C4_NoneMeasured ==
  (bt_pc \in {"screen", "done"} /\ idx >= 1 /\ (picks = <<>> \/ returns = <<>>)) =>
    /\ Len(results) = idx
    /\ results[idx].Portfolio_Return_pct = Num(0)
    /\ results[idx].Num_Stocks = 0

\* picks were selected, none was measured, and periods remain
C4_Witness ==
  /\ bt_pc = "screen"
  /\ idx >= 1
  /\ idx < Len(month_range)
  /\ picks # <<>>
  /\ returns = <<>>

\* C5 (as claimed): a period with picks of which none is measured has the
\* all-zero row of a period without candidates.
C5_AllZeroRow ==
  (bt_pc \in {"screen", "done"} /\ idx >= 1 /\ picks # <<>> /\ returns = <<>>) =>
    results[idx] = ZeroRow(Label(month_range[idx]))

\* the universe without its k-th instrument
Without(universe, k) ==
  SubSeq(universe, 1, k - 1) \o SubSeq(universe, k + 1, Len(universe))

\* the k-th instrument's retrieval for the screen of `day` raises or is empty,
\* or its latest MA50 or RSI14 is undefined
Fails(k, day) ==
  LET r == Download(feed[stock_list[k]], day - bt.lookback_days, day)
  IN  \/ r.raised
      \/ Rows(r.df) = 0
      \/ IsNaN(LastOf(calculate_moving_average(CloseOf(r.df), MA_WINDOW)))
      \/ IsNaN(LastOf(calculate_rsi(CloseOf(r.df), RSI_PERIOD)))

TickersOf(ranked) == {ranked[i][1] : i \in 1..Len(ranked)}

C7_ScoreInRange ==
  sc_pc = "scored" => FLe(Num(-1), score) /\ FLe(score, Num(1))

\* how far the weights' sum is from 1
SumOff ==
  LET off == FSub(FAdd(scorer.ma_weight, scorer.rsi_weight), Num(1))
  IN  IF FLt(off, Num(0)) THEN FNeg(off) ELSE off

C9_Validated ==
  /\ bt_pc \notin {"idle", "call"} =>
       /\ bt.backtest_months > 0
       /\ bt.lookback_days > 0
       /\ bt.top_n > 0
       /\ bt.holding_days > 0
  /\ wf_pc \notin {"idle", "call"} =>
       /\ wf.train_months > 0
       /\ wf.test_months > 0
       /\ wf.top_n > 0

\* C10 (as claimed): a second run() on the same Backtest object leaves the
\* result sequence the first one left.
C10_SameResults ==
  (bt_pc = "done" /\ runs = MaxRuns) => results = prior_results

\* the place of an instrument in the universe
UniverseIndex(ticker) == CHOOSE i \in 1..Len(stock_list) : stock_list[i] = ticker

\* a ranked list, given as its scores and its tickers: scores never increase
\* and entries of equal score stand in the order of the universe
RankedStable(scores, tickers) ==
  \A i, j \in 1..Len(scores) :
    i < j =>
      /\ FGe(scores[i], scores[j])
      /\ FGe(scores[j], scores[i]) =>
           UniverseIndex(tickers[i]) < UniverseIndex(tickers[j])

\* the candidate lists of both engines are ranked so (list.sort is stable)
EnginesRankedStable ==
  /\ BtScreened =>
       LET ranked == RankStocks(bt, feed, has_scorer, stock_list, BtScreenedDate).ranked
       IN  RankedStable([i \in 1..Len(ranked) |-> ranked[i][2]],
                        [i \in 1..Len(ranked) |-> ranked[i][1]])
  /\ WfScreened =>
       RankedStable([i \in 1..Len(wf_picks) |-> wf_picks[i][2]],
                    [i \in 1..Len(wf_picks) |-> wf_picks[i][1]])

\* C11: the table StockScreener.generate_signals leaves is ordered by score,
\* highest first, and rows of equal score keep the order of the universe.
C11_StableRanking ==
  scr.pc \in {"signals", "done"} =>
    RankedStable([i \in 1..Len(scr.results) |-> scr.results[i].Combined_Score],
                 [i \in 1..Len(scr.results) |-> scr.results[i].Ticker])

\* the first n entries of a list, none when n is not positive
FirstN(seq, n) == SubSeq(seq, 1, Max2(0, Min2(n, Len(seq))))

\* the whole ranked candidate list of a WalkForwardValidator screen
WfRanked(day) ==
  screen_blind([wf EXCEPT !.top_n = Len(stock_list)], feed, has_scorer, stock_list, day)

\* C12: after a screen of either engine with portfolio size N, the picks are
\* the first min(N, number of ranked candidates) entries of the ranked list:
\* never more than N of them, and no candidate left out ranks above a pick.
C12_TopN ==
  /\ BtScreened =>
       LET ranked == RankStocks(bt, feed, has_scorer, stock_list, BtScreenedDate).ranked
       IN  /\ Len(picks) <= Max2(0, bt.top_n)
           /\ picks = FirstN(ranked, bt.top_n)
  /\ WfScreened =>
       /\ Len(wf_picks) <= Max2(0, wf.top_n)
       /\ wf_picks = FirstN(WfRanked(WfScreenedDate), wf.top_n)

\* the same for the portfolio sizes that are sizes: N >= 0
TopNOfValidSizes ==
  /\ bt.top_n >= 0 /\ BtScreened =>
       LET ranked == RankStocks(bt, feed, has_scorer, stock_list, BtScreenedDate).ranked
       IN  Len(picks) <= bt.top_n /\ picks = FirstN(ranked, bt.top_n)
  /\ wf.top_n >= 0 /\ WfScreened =>
       /\ Len(wf_picks) <= wf.top_n
       /\ wf_picks = FirstN(WfRanked(WfScreenedDate), wf.top_n)

\* C13, on the stored values: in every stored row the outperformance is the
\* difference of the stored portfolio and benchmark returns.
C13_StoredDifference ==
  /\ \A k \in 1..Len(results) :
       results[k].Outperformance_pct
         = FSub(results[k].Portfolio_Return_pct, results[k].Nifty_Return_pct)
  /\ \A k \in 1..Len(wf_results) :
       wf_results[k].edge = FSub(wf_results[k].portfolio, wf_results[k].nifty)

\* the position right after the row of a period with picks was appended
BtRecorded == bt_pc = "screen" /\ idx >= 1 /\ picks # <<>>

\* C13: the outperformance of a Backtest row is the difference of the
\* period's portfolio and benchmark returns, rounded to 2 places after the
\* subtraction: it is within 0.01 of the difference of the two stored
\* returns.  The edge of a WalkForwardValidator row is exactly the difference
\* of its stored portfolio and benchmark returns.
C13_RoundedDifference ==
  /\ BtRecorded =>
       LET ym        == month_range[idx]
           benchmark == get_benchmark_return(bt, feed, get_screen_date(ym[1], ym[2])).ret
           portfolio == IF returns # <<>> THEN Mean(returns) ELSE Num(0)
       IN  results[Len(results)].Outperformance_pct = Round2(FSub(portfolio, benchmark))
  /\ \A k \in 1..Len(results) :
       LET off == FSub(results[k].Outperformance_pct,
                       FSub(results[k].Portfolio_Return_pct, results[k].Nifty_Return_pct))
       IN  FLe(off, Frac(1, 100)) /\ FGe(off, Frac(-1, 100))
  /\ \A k \in 1..Len(wf_results) :
       wf_results[k].edge = FSub(wf_results[k].portfolio, wf_results[k].nifty)

\* a recorded period whose stored outperformance is not the difference of the
\* stored returns, under a portfolio size of at least 1
C13_Witness ==
  /\ BtRecorded
  /\ bt.top_n >= 1
  /\ results[Len(results)].Num_Stocks >= 1
  /\ results[Len(results)].Outperformance_pct
       # FSub(results[Len(results)].Portfolio_Return_pct,
              results[Len(results)].Nifty_Return_pct)

\* the benchmark retrieval over [day, day + span) raises or gives fewer than
\* two points
BenchmarkFails(day, span) ==
  LET r == Download(feed[NSEI], day, day + span)
  IN  r.raised \/ Rows(r.df) < 2

\* the Backtest half of C14: a recorded period whose benchmark retrieval
\* failed stores a benchmark return of 0, and the loop is at the next period
BacktestBenchmarkGuarded ==
  BtRecorded =>
    LET ym == month_range[idx]
    IN  BenchmarkFails(get_screen_date(ym[1], ym[2]), bt.holding_days + FUTURE_BUFFER_DAYS)
          => results[Len(results)].Nifty_Return_pct = Num(0)

\* C14: a benchmark retrieval that raises or returns fewer than two points
\* gives a benchmark return of 0 and the run goes on, in Backtest.run and in
\* WalkForwardValidator.run.
C14_BenchmarkGuarded ==
  /\ BacktestBenchmarkGuarded
  /\ wf_pc # "raised"
  /\ \A k \in 1..Len(wf_results) :
       LET ym == wf_results[k].month
       IN  BenchmarkFails(Ordinal(ym[1], ym[2], 15), TEST_WINDOW_DAYS)
             => wf_results[k].nifty = Num(0)

\* the Backtest half of C15: every measured return is a finite number, and a
\* pick whose entry price is 0 is measured as a return of 0
BacktestReturnGuarded ==
  bt_pc = "record" =>
    /\ \A k \in 1..Len(returns) : IsFinite(returns[k])
    /\ (\A k \in 1..Len(picks) : picks[k][3] = Num(0))
         => \A k \in 1..Len(returns) : returns[k] = Num(0)

\* C15: no measured return is infinite or undefined, whatever the entry
\* price: neither a pick's return in Backtest nor the portfolio return of a
\* WalkForwardValidator row, which is the mean of its picks' returns.
C15_ReturnDefined ==
  /\ BacktestReturnGuarded
  /\ \A k \in 1..Len(wf_results) : IsFinite(wf_results[k].portfolio)

\* the month after (year, month)
NextMonth(ym) == IF ym[2] = 12 THEN <<ym[1] + 1, 1>> ELSE <<ym[1], ym[2] + 1>>

\* C16: a Backtest run over M >= 0 periods has exactly M decision dates: the
\* 15th of (start_year, start_month) and of each following month, December
\* followed by January of the next year, strictly increasing; the run visits
\* them in that order, one row each, none skipped and none repeated.
C16_ConsecutiveMonths ==
  bt_pc \in {"screen", "measure", "record", "done"} =>
    /\ Len(month_range) = bt.backtest_months
    /\ month_range # <<>> => month_range[1] = <<bt.start_year, bt.start_month>>
    /\ \A k \in 1..Len(month_range) :
         /\ get_screen_date(month_range[k][1], month_range[k][2])
              = Ordinal(month_range[k][1], month_range[k][2], 15)
         /\ k > 1 =>
              /\ month_range[k] = NextMonth(month_range[k - 1])
              /\ get_screen_date(month_range[k - 1][1], month_range[k - 1][2])
                   < get_screen_date(month_range[k][1], month_range[k][2])
    /\ Len(results) = idx
    /\ \A k \in 1..Len(results) : results[k].Month = month_range[k]
    /\ bt_pc = "done" => idx = bt.backtest_months

\* a finished run whose dates go from one year into the next
C16_Witness ==
  /\ bt_pc = "done"
  /\ Len(results) = bt.backtest_months
  /\ bt.backtest_months >= 2
  /\ results[1].Month[1] < results[Len(results)].Month[1]
  /\ \E k \in 1..Len(results) : results[k].Num_Stocks > 0

\* the number of decision dates C17 allows a walk-forward run
TestMonthsLimit == Max2(0, Min2(wf.test_months, wf.months - wf.train_months))

\* C17: WalkForwardValidator.run starts at the date train_months months after
\* the nominal start and visits min(test_months, months - train_months)
\* decision dates, none when that is negative.
C17_TestMonthsBound ==
  /\ wf_pc \in {"screen", "measure", "done"} => wf_i >= wf.train_months
  /\ wf_pc = "measure" =>
       /\ WfScreenDate(wf, wf_i) >= Ordinal(wf.start_year, 1, 15) + 28 * wf.train_months
       /\ wf_i - wf.train_months < TestMonthsLimit
  /\ wf_pc = "done" => wf_i - wf.train_months = TestMonthsLimit

\* what the loop does: every month from train_months up to months
VisitsAllRemainingMonths ==
  /\ wf_pc = "measure" => wf_i < wf.months
  /\ wf_pc = "done" => wf_i - wf.train_months = Max2(0, wf.months - wf.train_months)

\* C18: every value calculate_rsi returns is undefined (NaN) or lies in
\* [0, 100], one value per price, whatever the prices and the period.
C18_RsiInRange ==
  rsi_call.pc = "done" =>
    /\ DOMAIN rsi_call.rsi = DOMAIN rsi_call.prices
    /\ \A i \in DOMAIN rsi_call.rsi :
         \/ IsNaN(rsi_call.rsi[i])
         \/ FGe(rsi_call.rsi[i], Num(0)) /\ FLe(rsi_call.rsi[i], Num(100))

\* a result with an undefined value, both ends of the range and a value
\* strictly inside it
C18_Witness ==
  /\ rsi_call.pc = "done"
  /\ \E i, j, k, l \in DOMAIN rsi_call.rsi :
       /\ IsNaN(rsi_call.rsi[i])
       /\ rsi_call.rsi[j] = Num(0)
       /\ rsi_call.rsi[k] = Num(100)
       /\ FGt(rsi_call.rsi[l], Num(0)) /\ FLt(rsi_call.rsi[l], Num(100))

\* the table of a finished StockScreener.run(): ranks 1..n, scores never
\* increasing
ScreenerTableRanked ==
  scr.pc = "done" =>
    \A i \in 1..Len(scr.results) :
      /\ scr.results[i].Rank = i
      /\ i > 1 => FGe(scr.results[i - 1].Combined_Score, scr.results[i].Combined_Score)

\* C19: StockScreener.run() never raises, whatever the retrievals give, and
\* leaves results empty or ranked 1..n by descending Combined_Score.
C19_RunCompletes ==
  /\ scr.pc # "raised"
  /\ ScreenerTableRanked

\* the position right after the first screen of a run, whose lines are all
\* the log holds
BtFirstScreened ==
  runs = 0 /\ \/ bt_pc = "measure" /\ idx = 0
              \/ bt_pc = "screen" /\ idx = 1 /\ picks = <<>>

\* the first decision date of the run
BtFirstDate == get_screen_date(month_range[1][1], month_range[1][2])

\* the k-th instrument's retrieval for the screen of `day` raises
RetrievalRaises(k, day) ==
  Download(feed[stock_list[k]], day - bt.lookback_days, day).raised

\* it returns no history, or too little for MA50
RetrievalShort(k, day) ==
  LET r == Download(feed[stock_list[k]], day - bt.lookback_days, day)
  IN  ~r.raised /\ Rows(r.df) < MA_WINDOW

\* its indicators are defined and the scoring call raises
ScoringFails(k, day) ==
  LET r == Download(feed[stock_list[k]], day - bt.lookback_days, day)
  IN  /\ ~r.raised /\ Rows(r.df) > 0
      /\ ~IsNaN(LatestIndicators(r.df).MA50) /\ ~IsNaN(LatestIndicators(r.df).RSI14)
      /\ ~has_scorer

\* what the code logs: one line per retrieval that raised and per scoring
\* call that raised, and none for anything else
LoggedFailures ==
  BtFirstScreened =>
    Len(errors) = Cardinality({k \in 1..Len(stock_list) :
                                 RetrievalRaises(k, BtFirstDate) \/ ScoringFails(k, BtFirstDate)})

\* C20: after a Backtest screen the error log holds exactly one line per
\* instrument whose retrieval raised, or returned empty or too-short history,
\* or whose scoring failed.
C20_OneLinePerFailure ==
  BtFirstScreened =>
    Len(errors) = Cardinality({k \in 1..Len(stock_list) :
                                 \/ RetrievalRaises(k, BtFirstDate)
                                 \/ RetrievalShort(k, BtFirstDate)
                                 \/ ScoringFails(k, BtFirstDate)})

\* the log only grows: every step keeps the lines already there
ErrorLogGrows ==
  [][Len(errors') >= Len(errors) /\ SubSeq(errors', 1, Len(errors)) = errors]_vars

\* the forward window of a pick at decision date `day`, as the service
\* answers it
ForwardWindow(pick, day) ==
  Download(feed[pick[1]], day, day + bt.holding_days + FUTURE_BUFFER_DAYS)

\* the picks whose forward window came back with at least 2 points, in the
\* order of the picks
RECURSIVE Measured(_, _, _)
Measured(the_picks, day, k) ==
  IF k = 0 THEN <<>>
  ELSE Measured(the_picks, day, k - 1)
       \o (IF ~ForwardWindow(the_picks[k], day).raised
              /\ Rows(ForwardWindow(the_picks[k], day).df) >= 2
           THEN << the_picks[k] >> ELSE <<>>)

\* the return of a measured pick: first to last price of its window
PickReturn(pick, day) ==
  calc_return(pick[3], Num(LastOf(ForwardWindow(pick, day).df.Close)))

\* C21: in a recorded period with picks, the contributing instruments are
\* exactly the picks whose forward window has at least 2 points: the stored
\* portfolio return is the unweighted mean of their returns (0 if none),
\* rounded to 2 places, Num_Stocks is their count, at most the number of
\* picks, and the period's pick details are those instruments, in order.
C21_MeasuredPicks ==
  BtRecorded =>
    LET ym   == month_range[idx]
        D    == get_screen_date(ym[1], ym[2])
        kept == Measured(picks, D, Len(picks))
        n    == Len(kept)
        row  == results[Len(results)]
        det  == monthly_picks[Len(monthly_picks)]
        sum  == SumRange([k \in 1..n |-> PickReturn(kept[k], D)], 1, n)
    IN  /\ row.Num_Stocks = n
        /\ n <= Len(picks)
        /\ row.Portfolio_Return_pct = IF n = 0 THEN Num(0) ELSE Round2(FDiv(sum, Num(n)))
        /\ det.month = row.Month
        /\ Len(det.picks) = n
        /\ \A k \in 1..n : det.picks[k].ticker = kept[k][1]
        /\ returns = [k \in 1..n |-> PickReturn(kept[k], D)]

\* a recorded period in which one of two picks was measured and the other,
\* with a single point in its forward window, was dropped
C21_Witness ==
  /\ BtRecorded
  /\ Len(picks) = 2
  /\ results[Len(results)].Num_Stocks = 1
  /\ \E k \in 1..2 :
       LET w == ForwardWindow(picks[k], get_screen_date(month_range[idx][1],
                                                        month_range[idx][2]))
       IN  ~w.raised /\ Rows(w.df) = 1

\* what holds of both indicators: a position with fewer than `window` prices
\* up to and including itself is undefined
UndefinedBeforeWindow ==
  rsi_call.pc = "done" =>
    \A i \in DOMAIN rsi_call.prices :
      i < rsi_call.period =>
        /\ IsNaN(rsi_call.rsi[i])
        /\ IsNaN(calculate_moving_average(rsi_call.prices, rsi_call.period)[i])

\* C22: an indicator value exists only where its whole window of inputs
\* exists: the moving average of `window` prices from position `window` on,
\* the RSI of `period` price changes from position period + 1 on (the first
\* price has no change); before that the value is undefined, never computed
\* with a placeholder for the missing input.
C22_NoPlaceholder ==
  rsi_call.pc = "done" =>
    \A i \in DOMAIN rsi_call.prices :
      /\ i < rsi_call.period =>
           IsNaN(calculate_moving_average(rsi_call.prices, rsi_call.period)[i])
      /\ i - 1 < rsi_call.period => IsNaN(rsi_call.rsi[i])

\* the running maximum of the equity curve up to t, as a maximum of a set
Peak(rets, t) ==
  LET curve == {Cumulative(rets, s) : s \in 1..t}
  IN  CHOOSE p \in curve : \A q \in curve : ~FGt(q, p)

\* the decline at t from the peak at t, in percent
Decline(rets, t) ==
  FMul(FDiv(FSub(Cumulative(rets, t), Peak(rets, t)), Peak(rets, t)), Num(100))

\* C23: the maximum drawdown reported by Backtest._display_summary and by
\* drawdown_analysis is the least, over the periods t, of the decline of the
\* compounded equity curve from its running maximum up to t, in percent; it
\* is never positive, and it is -10 for the returns [+5, -10, +2].  (An
\* equity that reaches 0 in the first period has no defined decline: 0 / 0,
\* and the result is NaN.)
C23_MaxDrawdown ==
  stats.pc \in {"summary", "drawdown"} =>
    LET rets     == stats.returns
        declines == {Decline(rets, t) : t \in 1..Len(rets)}
    IN  /\ ~FGt(stats.max_dd, Num(0))
        /\ IF \E x \in declines : IsNaN(x) THEN IsNaN(stats.max_dd)
           ELSE /\ stats.max_dd \in declines
                /\ \A x \in declines : FLe(stats.max_dd, x)
        /\ rets = <<Num(5), Num(-10), Num(2)>> => stats.max_dd = Num(-10)

\* the example of the specification has been summarised, and a sequence that
\* opens with a loss and then recovers has been too
C23_Witness ==
  /\ stats.pc = "summary"
  /\ stats.returns = <<Num(5), Num(-10), Num(2)>>
  /\ stats.max_dd = Num(-10)

C23_WitnessRecovery ==
  /\ stats.pc = "drawdown"
  /\ stats.returns = <<Num(-50), Num(50)>>
  /\ stats.max_dd = Num(0)

\* a proxy that was computed as a quotient whose deviation is 0
ZeroDenominator(proxy) == ~proxy.zero /\ proxy.var = Num(0)

\* the Sharpe proxy of Backtest._display_summary and of PerformanceAnalyzer is
\* 0 when the deviation is 0 and the mean over the deviation otherwise
SharpeGuarded ==
  stats.pc \in {"summary", "statistics"} =>
    /\ stats.sharpe = IF Variance(stats.returns, 0) = Num(0) THEN ZeroProxy
                      ELSE Ratio(Mean(stats.returns), Variance(stats.returns, 0))
    /\ ~ZeroDenominator(stats.sharpe)

\* C24: for every non-empty result sequence the Sharpe proxy is the mean over
\* the deviation of the period returns and 0 when that deviation is 0, the
\* Sortino proxy is the mean over the deviation of the negative returns and 0
\* when there are none, and neither is computed with a zero denominator
C24_NoZeroDenominator ==
  LET negative == SelectSeq(stats.returns, LAMBDA r : FLt(r, Num(0)))
  IN  /\ SharpeGuarded
      /\ stats.pc = "metrics" => ~ZeroDenominator(stats.sharpe)
      /\ stats.pc = "statistics" =>
           /\ stats.sortino = IF negative = <<>> THEN ZeroProxy
                              ELSE Ratio(Mean(stats.returns), Variance(negative, 0))
           /\ ~ZeroDenominator(stats.sortino)

\* the signal the specification gives a price against its trend: +1 above the
\* trend by more than one hundredth of it, -1 below by more than that, 0 in
\* between, and 0 when either is missing or the trend is zero
TrendSignal(price, trend) ==
  IF IsNaN(price) \/ IsNaN(trend) \/ trend = Num(0) THEN Num(0)
  ELSE LET band == FDiv(trend, Num(100))
       IN  IF FGt(FSub(price, trend), band) THEN Num(1)
           ELSE IF FLt(FSub(price, trend), FNeg(band)) THEN Num(-1)
           ELSE Num(0)

MaSignalCalled(fn) == sig_call.pc = "done" /\ sig_call.fn = fn

\* StockScorer.get_ma_signal returns that signal, and never raises
ScorerTrendSignal ==
  MaSignalCalled("StockScorer.get_ma_signal") =>
    /\ ~sig_call.raised /\ ~sig_call.skipped
    /\ sig_call.signal = TrendSignal(sig_call.price, sig_call.ma)

\* where the trend is not zero, the other two rules give that signal too,
\* the inline rule passing over an instrument whose trend is missing
NonZeroTrendSignal ==
  sig_call.pc = "done" /\ sig_call.fn \in {"indicators.get_ma_signal", "generate_signals"}
    /\ sig_call.ma # Num(0) =>
    /\ ~sig_call.raised
    /\ sig_call.skipped \/ sig_call.signal = TrendSignal(sig_call.price, sig_call.ma)
    /\ sig_call.skipped => IsNaN(sig_call.ma)

\* C25: StockScorer.get_ma_signal, indicators.get_ma_signal and the inline
\* rule of StockScreener.generate_signals each give +1 to a price more than
\* 1% above its trend, -1 to one more than 1% below, 0 otherwise (exactly 1%
\* gives 0), and give 0 without raising when the price or the trend is
\* missing or the trend is zero
C25_TrendSignal ==
  sig_call.pc = "done"
    /\ sig_call.fn \in {"StockScorer.get_ma_signal", "indicators.get_ma_signal",
                        "generate_signals"} =>
    /\ ~sig_call.raised
    /\ sig_call.skipped \/ sig_call.signal = TrendSignal(sig_call.price, sig_call.ma)

\* the band a printed label stands for
Band(label) ==
  CASE label = "MODERATE BUY" -> "BUY"
    [] label = "NEUTRAL"      -> "HOLD"
    [] label = "AVOID / SELL" -> "SELL"
    [] OTHER                  -> label

\* C27: every score in [-1, 1] gets exactly one label: STRONG BUY iff
\* score >= 0.7, BUY iff 0.3 <= score < 0.7, HOLD iff -0.3 < score < 0.3,
\* SELL iff score <= -0.3; the bands are contiguous and cover the range
C27_Labels ==
  sig_call.pc = "done" /\ sig_call.fn \in {"get_interpretation", "test_indicators"} =>
    LET x    == sig_call.score
        band == Band(sig_call.label)
    IN  /\ band \in {"STRONG BUY", "BUY", "HOLD", "SELL"}
        /\ band = "STRONG BUY" <=> FGe(x, Frac(7, 10))
        /\ band = "BUY" <=> FGe(x, Frac(3, 10)) /\ FLt(x, Frac(7, 10))
        /\ band = "HOLD" <=> FGt(x, Frac(-3, 10)) /\ FLt(x, Frac(3, 10))
        /\ band = "SELL" <=> FLe(x, Frac(-3, 10))

\* the score -0.3, the edge between HOLD and SELL, has been labelled
C27_Witness ==
  /\ sig_call.pc = "done" /\ sig_call.fn = "get_interpretation"
  /\ sig_call.score = Frac(-3, 10)
  /\ sig_call.label = "SELL"

\* the momentum signal of the specification: the RSI is first brought into
\* [0, 100]; above 60 gives +1, below 40 gives -0.5, anything else and a
\* missing RSI give 0
MomentumSignal(rsi) ==
  IF IsNaN(rsi) THEN Num(0)
  ELSE LET bounded == IF FLt(rsi, Num(0)) THEN Num(0)
                      ELSE IF FGt(rsi, Num(100)) THEN Num(100) ELSE rsi
       IN  IF FGt(bounded, Num(60)) THEN Num(1)
           ELSE IF FLt(bounded, Num(40)) THEN Frac(-1, 2)
           ELSE Num(0)

DefaultScored(price, ma50, rsi14) ==
  sc_pc = "scored" /\ scorer = DefaultScorer /\ score_args = <<price, ma50, rsi14>>

\* C26: with the default weights calculate_score is 0.4 x trend signal +
\* 0.6 x momentum signal, rounded to 2 places; (500, 480, 65) scores 1.0,
\* (300, 310, 35) scores -0.7 and (400, 405, 50) scores -0.4
C26_DefaultScore ==
  /\ sc_pc = "scored" /\ scorer = DefaultScorer =>
       score = Round2(FAdd(FMul(Frac(4, 10), TrendSignal(score_args[1], score_args[2])),
                           FMul(Frac(6, 10), MomentumSignal(score_args[3]))))
  /\ DefaultScored(Num(500), Num(480), Num(65)) => score = Num(1)
  /\ DefaultScored(Num(300), Num(310), Num(35)) => score = Frac(-7, 10)
  /\ DefaultScored(Num(400), Num(405), Num(50)) => score = Frac(-4, 10)

\* the second example has been scored
C26_Witness == DefaultScored(Num(300), Num(310), Num(35)) /\ score = Frac(-7, 10)

\* (year, month) as a count of months
MonthIndex(ym) == ym[1] * 12 + ym[2]

\* the rows stand in the order of their decision dates
RowsInDateOrder ==
  \A i, j \in 1..Len(results) :
    i < j => MonthIndex(results[i].Month) < MonthIndex(results[j].Month)

\* one step of a run leaves the rows alone or appends one row, the row of
\* the period it has just processed, and moves to the next period if at all
AppendsOneRow ==
  /\ \/ results' = results
     \/ /\ Len(results') = Len(results) + 1
        /\ SubSeq(results', 1, Len(results)) = results
        /\ bt_pc \in {"screen", "record"}
        /\ idx' = idx + 1
        /\ results'[Len(results')].Month = Label(month_range[idx + 1])
  /\ bt_pc \in {"screen", "measure", "record"} =>
       /\ month_range' = month_range
       /\ idx' \in {idx, idx + 1}

\* C28: during a run of Backtest the result sequence changes only by one row
\* appended at its end per processed period; no row is modified, removed or
\* moved; the periods are processed in chronological order, so the rows stand
\* in the order of their decision dates
C28_AppendOnly == [][AppendsOneRow /\ RowsInDateOrder']_vars

\* a run that has appended the rows of two periods with picks
C28_Witness ==
  /\ bt_pc = "done"
  /\ Len(results) >= 2
  /\ results[1].Num_Stocks > 0 /\ results[2].Num_Stocks > 0

====
